---- MODULE Spec2Model ----
(***************************************************************************)
(* Consensus core of fradamt/3sf: block/vote view, view-merge buffers,     *)
(* FFG justification and finalization, and the GHOST fork choice, as       *)
(* written in src/high_level (RLMD node) and src/ga_based.                 *)
(*                                                                         *)
(* Python functions that can abort (a lookup of a hash that is not in the  *)
(* block view, `get_block_from_hash`, whose `Requires` is a no-op) are     *)
(* modelled with results  Return(v)  or  Raised ; conjunctions are         *)
(* evaluated left to right as Python's `and` does.  A Python function      *)
(* whose result depends on the iteration order of a set (pset_max on a     *)
(* tie, the LMD loop) is modelled by the SET of results it can return.     *)
(***************************************************************************)
EXTENDS Integers, FiniteSets, Sequences, TLC

(***************************************************************************)
(* Bounds of the model                                                     *)
(***************************************************************************)
MaxSlot == 3
MaxBuffered == 1
MaxTime == 8
MaxSlashingVotes == 4
MaxClockTime == 40
MaxDelta == 3
MaxBeaconSlot == 20

\* the longest list of justified checkpoints a direct call may extend
MaxJustifiedCheckpoints == 3

(***************************************************************************)
(* Configuration (data_structures.py, class Configuration)                 *)
(***************************************************************************)
Eta == 1
Delta == 1
K == 2

\* Results of Python calls: a value, or an exception that propagates.
Raised == [raised |-> TRUE]
Return(v) == [raised |-> FALSE, value |-> v]

(***************************************************************************)
(* The universe of blocks, checkpoints and votes the environment can send. *)
(***************************************************************************)
Checkpoint(h, cs, bs) == [block_hash |-> h, chkp_slot |-> cs, block_slot |-> bs]

VoteMsg(sender, slot, head, src, tgt) ==
    [sender |-> sender, signature |-> "sig",
     message |-> [slot |-> slot, head_hash |-> head, ffg_source |-> src, ffg_target |-> tgt]]

cpG == Checkpoint("G", 0, 0)
cpA1 == Checkpoint("A1", 1, 1)
cpA2 == Checkpoint("A2", 2, 2)
cpB1 == Checkpoint("B1", 3, 1)
cpA1bad == Checkpoint("A1", 1, 2)

\* two validators justify (A1,1,1) from genesis
voteJ1 == VoteMsg("v1", 1, "A1", cpG, cpA1)
voteJ2 == VoteMsg("v2", 1, "A1", cpG, cpA1)
\* the same validators link (A1,1,1) to (A2,2,2), finalizing (A1,1,1)
voteF1 == VoteMsg("v1", 2, "A2", cpA1, cpA2)
voteF2 == VoteMsg("v2", 2, "A2", cpA1, cpA2)
\* two validators justify the conflicting block B1 at a later checkpoint
\* slot, in votes of slot 1: v1 votes for two heads in that slot
voteK1 == VoteMsg("v1", 1, "B1", cpG, cpB1)
voteK3 == VoteMsg("v3", 1, "B1", cpG, cpB1)
\* a vote whose target carries a block_slot that is not the slot of its block
voteBad == VoteMsg("v3", 1, "A1", cpG, cpA1bad)

\* v2 votes for a second target of checkpoint slot 1
voteE2 == VoteMsg("v2", 1, "B1", cpG, Checkpoint("B1", 1, 1))
\* a vote in the name of v3 whose signature does not verify
voteForged == [VoteMsg("v3", 1, "B1", cpG, Checkpoint("B1", 1, 1)) EXCEPT !.signature = "forged"]

\* the vote views given to the slashing detector are drawn from these votes
SlashingVotes == {voteJ1, voteK1, voteF1, voteJ2, voteE2, voteBad, voteK3, voteForged}

\* the third validator's vote for (A1,1,1)
voteJ3 == VoteMsg("v3", 1, "A1", cpG, cpA1)
\* a vote for the head B1 whose FFG target is on the other branch
voteSide3 == VoteMsg("v3", 1, "B1", cpG, cpA1)
\* a link from (A1,1,1) to a second checkpoint of checkpoint slot 2
voteL2 == VoteMsg("v2", 2, "A1", cpA1, Checkpoint("A1", 2, 1))

\* a vote whose FFG source is its FFG target
voteLoop3 == VoteMsg("v3", 1, "A1", cpA1, cpA1)

\* the votes delivered to the node whose FFG engine is examined
\* v1 links (A1,1,1) to the next checkpoint slot, as voteL2 of v2 does
voteL1 == VoteMsg("v1", 2, "A1", cpA1, Checkpoint("A1", 2, 1))

\* v1 votes for (B1,3,1) from the checkpoint of genesis at slot 1
voteW1 == VoteMsg("v1", 3, "B1", Checkpoint("G", 1, 0), cpB1)

\* v1 and v3 link (B1,3,1) to the next checkpoint slot
voteM1 == VoteMsg("v1", 4, "B1", cpB1, Checkpoint("B1", 4, 1))

voteM3 == VoteMsg("v3", 4, "B1", cpB1, Checkpoint("B1", 4, 1))

\* the votes that can finalize checkpoints on the two branches of genesis
SafetyVotes ==
    {voteJ1, voteJ2, voteL1, voteL2, voteK1, voteW1, voteK3, voteM1, voteM3}

FFGVotes == {voteJ1, voteJ2, voteJ3, voteSide3, voteF1, voteL2, voteLoop3}

\* the votes the network delivers; voteJ1 and voteBad reach the node inside
\* block A2
AllVotes == {voteJ2, voteF1, voteF2, voteK1, voteK3}

NewBlock(parent, slot, votes, body) ==
    [parent_hash |-> parent, slot |-> slot, votes |-> votes, body |-> body]

genesis == NewBlock("Z", 0, {}, "g")
blockA1 == NewBlock("G", 1, {}, "a")
blockB1 == NewBlock("G", 1, {}, "b")
blockA2 == NewBlock("A1", 2, {voteJ1, voteBad}, "a")

Hashes == {"G", "A1", "B1", "A2"}

\* what block_hash inverts: the content-addressed store of all blocks
BlockOf == [h \in Hashes |->
              CASE h = "G" -> genesis
                [] h = "A1" -> blockA1
                [] h = "B1" -> blockB1
                [] h = "A2" -> blockA2]

\* the blocks the network delivers
AllBlocks == {BlockOf[h] : h \in Hashes \ {"G"}}

\* the blocks of the two branches of genesis
SafetyBlocks == {blockA1, blockB1}

(***************************************************************************)
(* External stubs (stubs.py is not part of the sources)                    *)
(***************************************************************************)
block_hash(block) == CHOOSE h \in Hashes : BlockOf[h] = block

verify_vote_signature(vote) == vote.signature = "sig"

\* three validators of weight 1, for every block and slot
get_validator_set_for_slot(block, slot, node_state) ==
    [v \in {"v1", "v2", "v3"} |-> 1]

(***************************************************************************)
(* State of the RLMD node: a CommonNodeState (the views and the slot), a   *)
(* NodeState (the phase and the buffers), and the exception that ended the *)
(* last call of one of its functions ("none" when it returned)             *)
(***************************************************************************)
VARIABLES view_blocks, view_votes, current_slot

VARIABLES current_phase, buffer_blocks, buffer_votes

VARIABLES rlmd_exception

\* State of the ga_based node: its NodeState record, and the exception that
\* ended the last call of one of its functions ("none" when it returned)
VARIABLES ga_node_state, ga_exception

\* The slashing detector: the vote view it is given and the nodes it
\* returned
VARIABLES vote_view, slashable_nodes

rlmd_vars == <<view_blocks, view_votes, current_slot, current_phase, buffer_blocks,
               buffer_votes, rlmd_exception>>

ga_vars == <<ga_node_state, ga_exception>>

\* A clock: a time and a configuration, with the slot and the phase that
\* get_slot_from_time and get_phase_from_time of the two nodes give for them
VARIABLES clock

slashing_vars == <<vote_view, slashable_nodes>>

clock_vars == <<clock>>

\* The beacon state of the pyspec sketch (the fields the checkpoints depend
\* on), the exception that ended the last call on it ("none" when it
\* returned), and the result of the last call of generate_attestation_data
VARIABLES beacon_state, beacon_exception, attestation_data

beacon_vars == <<beacon_state, beacon_exception, attestation_data>>

vars == <<view_blocks, view_votes, current_slot, current_phase, buffer_blocks,
          buffer_votes, rlmd_exception, ga_node_state, ga_exception, vote_view, slashable_nodes, clock,
          beacon_state, beacon_exception, attestation_data>>

\* The fields CommonNodeState declares.  The identity and the confirmed block
\* chava are read by no function of the sources.
CommonNodeState ==
    [configuration |-> [delta |-> Delta, genesis |-> genesis, eta |-> Eta, k |-> K],
     identity |-> "v1",
     current_slot |-> current_slot,
     view_blocks |-> view_blocks,
     view_votes |-> view_votes,
     chava |-> genesis]

\* The fields NodeState declares with field(): `common` is an annotation
\* without field(), so the record has no such field and no NodeState holds a
\* CommonNodeState.
NodeState ==
    [current_phase |-> current_phase,
     buffer_votes |-> buffer_votes,
     buffer_blocks |-> buffer_blocks]

\* pythonic_code_generic: persistent map and set primitives
pmap_get_empty == [h \in {} |-> genesis]

pmap_has(pm, k) == k \in DOMAIN pm

pmap_set(pm, k, v) == [x \in DOMAIN pm \cup {k} |-> IF x = k THEN v ELSE pm[x]]

pmap_merge(a, b) == [x \in DOMAIN a \cup DOMAIN b |-> IF x \in DOMAIN b THEN b[x] ELSE a[x]]

pmap_values(pm) == {pm[k] : k \in DOMAIN pm}

pset_merge(a, b) == a \cup b

pset_merge_flatten(s) == UNION s

\* The arguments of pset_filter: a callable (given by its graph on the
\* elements it is applied to) and a persistent set.  pset_filter iterates
\* its second argument and calls its first: given them in the other order it
\* raises TypeError.
Callable(f) == [kind |-> "callable", apply |-> f]

PSetValue(elements) == [kind |-> "pset", elements |-> elements]

pset_filter(p, s) ==
    IF p.kind # "callable" \/ s.kind # "pset" THEN Raised
    ELSE Return({e \in s.elements : p.apply[e]})

(***************************************************************************)
(* common.py                                                               *)
(***************************************************************************)
genesis_checkpoint(node_state) == Checkpoint(block_hash(genesis), 0, 0)

has_block_hash(hash, node_state) == pmap_has(node_state.view_blocks, hash)

\* only used where has_block_hash holds; the callers model the abort
get_block_from_hash(hash, node_state) == node_state.view_blocks[hash]

has_parent(block, node_state) == has_block_hash(block.parent_hash, node_state)

get_parent(block, node_state) == get_block_from_hash(block.parent_hash, node_state)

get_all_blocks(node_state) == pmap_values(node_state.view_blocks)

RECURSIVE is_complete_chain(_, _)
is_complete_chain(block, node_state) ==
    IF block = genesis THEN TRUE
    ELSE IF ~has_parent(block, node_state) THEN FALSE
    ELSE is_complete_chain(get_parent(block, node_state), node_state)

is_validator(node, validatorBalances) == node \in DOMAIN validatorBalances

RECURSIVE pset_sum_balances(_, _)
pset_sum_balances(validators, validatorBalances) ==
    IF validators = {} THEN 0
    ELSE LET v == CHOOSE x \in validators : TRUE
         IN validatorBalances[v] + pset_sum_balances(validators \ {v}, validatorBalances)

validator_set_weight(validators, validatorBalances) ==
    pset_sum_balances(DOMAIN validatorBalances \cap validators, validatorBalances)

RECURSIVE is_ancestor_descendant_relationship(_, _, _)
is_ancestor_descendant_relationship(ancestor, descendant, node_state) ==
    IF ancestor = descendant THEN TRUE
    ELSE IF descendant = genesis THEN FALSE
    ELSE /\ has_parent(descendant, node_state)
         /\ is_ancestor_descendant_relationship(ancestor, get_parent(descendant, node_state), node_state)

(***************************************************************************)
(* ffg.py                                                                  *)
(***************************************************************************)
get_set_FFG_targets(votes) == {vote.message.ffg_target : vote \in votes}

\* The conjuncts in Python's order.  get_block_from_hash(head_hash) is an
\* argument of the second conjunct and the two FFG blocks are arguments of
\* the third, all looked up before the has_block_hash conjuncts are reached.
valid_FFG_vote(vote, node_state) ==
    IF ~verify_vote_signature(vote) THEN Return(FALSE)
    ELSE IF ~has_block_hash(vote.message.head_hash, node_state) THEN Raised
    ELSE IF ~is_validator(vote.sender,
                get_validator_set_for_slot(get_block_from_hash(vote.message.head_hash, node_state),
                                           vote.message.slot, node_state))
         THEN Return(FALSE)
    ELSE IF ~has_block_hash(vote.message.ffg_source.block_hash, node_state) THEN Raised
    ELSE IF ~has_block_hash(vote.message.ffg_target.block_hash, node_state) THEN Raised
    ELSE Return(
        /\ is_ancestor_descendant_relationship(
               get_block_from_hash(vote.message.ffg_source.block_hash, node_state),
               get_block_from_hash(vote.message.ffg_target.block_hash, node_state),
               node_state)
        /\ vote.message.ffg_source.chkp_slot < vote.message.ffg_target.chkp_slot
        /\ has_block_hash(vote.message.ffg_source.block_hash, node_state)
        /\ get_block_from_hash(vote.message.ffg_source.block_hash, node_state).slot
               = vote.message.ffg_source.block_slot
        /\ has_block_hash(vote.message.ffg_target.block_hash, node_state)
        /\ get_block_from_hash(vote.message.ffg_target.block_hash, node_state).slot
               = vote.message.ffg_target.block_slot)

\* pset_filter with a predicate that can abort: the filter aborts when the
\* predicate aborts on any element.
pset_filter_raising(results) ==
    IF \E x \in DOMAIN results : results[x].raised THEN Raised
    ELSE Return({x \in DOMAIN results : results[x].value})

RECURSIVE is_justified_checkpoint(_, _)

is_FFG_vote_in_support_of_checkpoint_justification(vote, checkpoint, node_state) ==
    LET valid == valid_FFG_vote(vote, node_state)
    IN  IF valid.raised \/ ~valid.value THEN valid
        ELSE IF vote.message.ffg_target.chkp_slot # checkpoint.chkp_slot THEN Return(FALSE)
        ELSE IF ~has_block_hash(checkpoint.block_hash, node_state) THEN Raised
        ELSE IF ~is_ancestor_descendant_relationship(
                    get_block_from_hash(checkpoint.block_hash, node_state),
                    get_block_from_hash(vote.message.ffg_target.block_hash, node_state),
                    node_state)
             THEN Return(FALSE)
        ELSE IF ~is_ancestor_descendant_relationship(
                    get_block_from_hash(vote.message.ffg_source.block_hash, node_state),
                    get_block_from_hash(checkpoint.block_hash, node_state),
                    node_state)
             THEN Return(FALSE)
        ELSE is_justified_checkpoint(vote.message.ffg_source, node_state)

\* The conjuncts of is_FFG_vote_in_support_of_checkpoint_justification that
\* come before its call of is_justified_checkpoint, without the first one,
\* valid_FFG_vote: true when they all hold.
reaches_justification_of_source_without_validity(vote, checkpoint, node_state) ==
    /\ has_block_hash(vote.message.ffg_source.block_hash, node_state)
    /\ has_block_hash(vote.message.ffg_target.block_hash, node_state)
    /\ vote.message.ffg_target.chkp_slot = checkpoint.chkp_slot
    /\ has_block_hash(checkpoint.block_hash, node_state)
    /\ is_ancestor_descendant_relationship(
           get_block_from_hash(checkpoint.block_hash, node_state),
           get_block_from_hash(vote.message.ffg_target.block_hash, node_state),
           node_state)
    /\ is_ancestor_descendant_relationship(
           get_block_from_hash(vote.message.ffg_source.block_hash, node_state),
           get_block_from_hash(checkpoint.block_hash, node_state),
           node_state)

\* The conjuncts of is_FFG_vote_in_support_of_checkpoint_justification that
\* come before its call of is_justified_checkpoint(vote.message.ffg_source):
\* true when they all return true, so that the call is made.
reaches_justification_of_source(vote, checkpoint, node_state) ==
    LET valid == valid_FFG_vote(vote, node_state)
    IN  /\ ~valid.raised /\ valid.value
        /\ vote.message.ffg_target.chkp_slot = checkpoint.chkp_slot
        /\ has_block_hash(checkpoint.block_hash, node_state)
        /\ is_ancestor_descendant_relationship(
               get_block_from_hash(checkpoint.block_hash, node_state),
               get_block_from_hash(vote.message.ffg_target.block_hash, node_state),
               node_state)
        /\ is_ancestor_descendant_relationship(
               get_block_from_hash(vote.message.ffg_source.block_hash, node_state),
               get_block_from_hash(checkpoint.block_hash, node_state),
               node_state)

\* The checkpoints on which an evaluation of
\* is_justified_checkpoint(checkpoint) can call is_justified_checkpoint
\* again, through the votes of the view it filters.
justification_calls(checkpoint, node_state) ==
    IF checkpoint = genesis_checkpoint(node_state) THEN {}
    ELSE IF \/ ~has_block_hash(checkpoint.block_hash, node_state)
            \/ ~is_complete_chain(get_block_from_hash(checkpoint.block_hash, node_state), node_state)
         THEN {}
    ELSE {vote.message.ffg_source : vote \in
             {v \in node_state.view_votes :
                 reaches_justification_of_source(v, checkpoint, node_state)}}

filter_out_FFG_votes_not_in_FFG_support_of_checkpoint_justification(votes, checkpoint, node_state) ==
    pset_filter_raising(
        [vote \in votes |->
            is_FFG_vote_in_support_of_checkpoint_justification(vote, checkpoint, node_state)])

get_validators_in_FFG_support_of_checkpoint_justification(votes, checkpoint, node_state) ==
    LET supporting ==
            filter_out_FFG_votes_not_in_FFG_support_of_checkpoint_justification(votes, checkpoint, node_state)
    IN  IF supporting.raised THEN Raised
        ELSE Return({vote.sender : vote \in supporting.value})

\* is_justified_checkpoint asking for more than two thirds of the weight
is_justified_checkpoint_by_more_than_two_thirds(checkpoint, node_state) ==
    IF checkpoint = genesis_checkpoint(node_state) THEN Return(TRUE)
    ELSE IF \/ ~has_block_hash(checkpoint.block_hash, node_state)
            \/ ~is_complete_chain(get_block_from_hash(checkpoint.block_hash, node_state), node_state)
         THEN Return(FALSE)
    ELSE LET validatorBalances ==
                 get_validator_set_for_slot(get_block_from_hash(checkpoint.block_hash, node_state),
                                            checkpoint.block_slot, node_state)
             supporters ==
                 get_validators_in_FFG_support_of_checkpoint_justification(
                     node_state.view_votes, checkpoint, node_state)
             tot_validator_set_weight ==
                 validator_set_weight(DOMAIN validatorBalances, validatorBalances)
         IN  IF supporters.raised THEN Raised
             ELSE Return(validator_set_weight(supporters.value, validatorBalances) * 3
                             > tot_validator_set_weight * 2)

is_justified_checkpoint(checkpoint, node_state) ==
    IF checkpoint = genesis_checkpoint(node_state) THEN Return(TRUE)
    ELSE IF \/ ~has_block_hash(checkpoint.block_hash, node_state)
            \/ ~is_complete_chain(get_block_from_hash(checkpoint.block_hash, node_state), node_state)
         THEN Return(FALSE)
    ELSE LET validatorBalances ==
                 get_validator_set_for_slot(get_block_from_hash(checkpoint.block_hash, node_state),
                                            checkpoint.block_slot, node_state)
             supporters ==
                 get_validators_in_FFG_support_of_checkpoint_justification(
                     node_state.view_votes, checkpoint, node_state)
             tot_validator_set_weight ==
                 validator_set_weight(DOMAIN validatorBalances, validatorBalances)
         IN  IF supporters.raised THEN Raised
             ELSE Return(validator_set_weight(supporters.value, validatorBalances) * 3
                             >= tot_validator_set_weight * 2)

filter_out_non_justified_checkpoint(checkpoints, node_state) ==
    pset_filter_raising(
        [checkpoint \in checkpoints |-> is_justified_checkpoint(checkpoint, node_state)])

get_justified_checkpoints(node_state) ==
    LET justified ==
            filter_out_non_justified_checkpoint(get_set_FFG_targets(node_state.view_votes), node_state)
    IN  IF justified.raised THEN Raised
        ELSE Return(justified.value \cup {genesis_checkpoint(node_state)})

\* keys of the two orders on checkpoints
justified_key_leq(c1, c2) ==
    \/ c1.chkp_slot < c2.chkp_slot
    \/ c1.chkp_slot = c2.chkp_slot /\ c1.block_slot <= c2.block_slot

finalized_key_leq(c1, c2) == c1.chkp_slot <= c2.chkp_slot

\* get_greatest_justified_checkpoint returning any justified checkpoint,
\* whatever its key
get_greatest_justified_checkpoint_of_any_key(node_state) ==
    LET justified == get_justified_checkpoints(node_state)
    IN  IF justified.raised THEN Raised
        ELSE Return(justified.value)

\* pset_max returns an element with the greatest key; which one, on a tie,
\* depends on the iteration order of the set: the value is the set of the
\* checkpoints it can return.
get_greatest_justified_checkpoint(node_state) ==
    LET justified == get_justified_checkpoints(node_state)
    IN  IF justified.raised THEN Raised
        ELSE Return({c \in justified.value :
                        \A d \in justified.value : justified_key_leq(d, c)})

is_FFG_vote_linking_to_a_checkpoint_in_next_slot(vote, checkpoint, node_state) ==
    LET valid == valid_FFG_vote(vote, node_state)
    IN  IF valid.raised \/ ~valid.value THEN valid
        ELSE Return(/\ vote.message.ffg_source = checkpoint
                    /\ vote.message.ffg_target.chkp_slot = checkpoint.chkp_slot + 1)

filter_out_FFG_vote_not_linking_to_a_checkpoint_in_next_slot(checkpoint, node_state) ==
    pset_filter_raising(
        [vote \in node_state.view_votes |->
            is_FFG_vote_linking_to_a_checkpoint_in_next_slot(vote, checkpoint, node_state)])

get_validators_in_FFG_votes_linking_to_a_checkpoint_in_next_slot(checkpoint, node_state) ==
    LET linking == filter_out_FFG_vote_not_linking_to_a_checkpoint_in_next_slot(checkpoint, node_state)
    IN  IF linking.raised THEN Raised
        ELSE Return({vote.sender : vote \in linking.value})

\* is_finalized_checkpoint without its first statement, the return of False
\* for a checkpoint that is not justified
is_finalized_checkpoint_unguarded(checkpoint, node_state) ==
    IF ~has_block_hash(checkpoint.block_hash, node_state) THEN Raised
    ELSE LET validatorBalances ==
                 get_validator_set_for_slot(get_block_from_hash(checkpoint.block_hash, node_state),
                                            checkpoint.block_slot, node_state)
             linkers ==
                 get_validators_in_FFG_votes_linking_to_a_checkpoint_in_next_slot(checkpoint, node_state)
             tot_validator_set_weight ==
                 validator_set_weight(DOMAIN validatorBalances, validatorBalances)
         IN  IF linkers.raised THEN Raised
             ELSE Return(validator_set_weight(linkers.value, validatorBalances) * 3
                             >= tot_validator_set_weight * 2)

\* is_finalized_checkpoint content with one third of the weight on the links
is_finalized_checkpoint_by_one_third(checkpoint, node_state) ==
    LET justified == is_justified_checkpoint(checkpoint, node_state)
    IN  IF justified.raised \/ ~justified.value THEN justified
        ELSE IF ~has_block_hash(checkpoint.block_hash, node_state) THEN Raised
        ELSE LET validatorBalances ==
                     get_validator_set_for_slot(get_block_from_hash(checkpoint.block_hash, node_state),
                                                checkpoint.block_slot, node_state)
                 linkers ==
                     get_validators_in_FFG_votes_linking_to_a_checkpoint_in_next_slot(checkpoint, node_state)
                 tot_validator_set_weight ==
                     validator_set_weight(DOMAIN validatorBalances, validatorBalances)
             IN  IF linkers.raised THEN Raised
                 ELSE Return(validator_set_weight(linkers.value, validatorBalances) * 3
                                 >= tot_validator_set_weight)

is_finalized_checkpoint(checkpoint, node_state) ==
    LET justified == is_justified_checkpoint(checkpoint, node_state)
    IN  IF justified.raised \/ ~justified.value THEN justified
        ELSE IF ~has_block_hash(checkpoint.block_hash, node_state) THEN Raised
        ELSE LET validatorBalances ==
                     get_validator_set_for_slot(get_block_from_hash(checkpoint.block_hash, node_state),
                                                checkpoint.block_slot, node_state)
                 linkers ==
                     get_validators_in_FFG_votes_linking_to_a_checkpoint_in_next_slot(checkpoint, node_state)
                 tot_validator_set_weight ==
                     validator_set_weight(DOMAIN validatorBalances, validatorBalances)
             IN  IF linkers.raised THEN Raised
                 ELSE Return(validator_set_weight(linkers.value, validatorBalances) * 3
                                 >= tot_validator_set_weight * 2)

filter_out_non_finalized_checkpoint(checkpoints, node_state) ==
    pset_filter_raising(
        [checkpoint \in checkpoints |-> is_finalized_checkpoint(checkpoint, node_state)])

get_finalized_checkpoints(node_state) ==
    LET finalized ==
            filter_out_non_finalized_checkpoint(get_set_FFG_targets(node_state.view_votes), node_state)
    IN  IF finalized.raised THEN Raised
        ELSE Return(finalized.value \cup {genesis_checkpoint(node_state)})

\* get_greatest_finalized_checkpoint returning any finalized checkpoint,
\* whatever its key
get_greatest_finalized_checkpoint_of_any_key(node_state) ==
    LET finalized == get_finalized_checkpoints(node_state)
    IN  IF finalized.raised THEN Raised
        ELSE Return(finalized.value)

get_greatest_finalized_checkpoint(node_state) ==
    LET finalized == get_finalized_checkpoints(node_state)
    IN  IF finalized.raised THEN Raised
        ELSE Return({c \in finalized.value :
                        \A d \in finalized.value : finalized_key_leq(d, c)})

\* are_equivocating_votes without the comparison of the senders
are_equivocating_votes_of_any_senders(vote1, vote2) ==
    /\ verify_vote_signature(vote1)
    /\ verify_vote_signature(vote2)
    /\ vote1 # vote2
    /\ vote1.message.ffg_target.chkp_slot = vote2.message.ffg_target.chkp_slot

\* are_equivocating_votes that also asks for equal head hashes
are_equivocating_votes_of_one_head(vote1, vote2) ==
    /\ verify_vote_signature(vote1)
    /\ verify_vote_signature(vote2)
    /\ vote1.sender = vote2.sender
    /\ vote1 # vote2
    /\ vote1.message.head_hash = vote2.message.head_hash
    /\ vote1.message.ffg_target.chkp_slot = vote2.message.ffg_target.chkp_slot

are_equivocating_votes(vote1, vote2) ==
    /\ verify_vote_signature(vote1)
    /\ verify_vote_signature(vote2)
    /\ vote1.sender = vote2.sender
    /\ vote1 # vote2
    /\ vote1.message.ffg_target.chkp_slot = vote2.message.ffg_target.chkp_slot

\* the comparison of the sources is Python's order on tuples
does_first_vote_surround_second_vote(vote1, vote2) ==
    /\ verify_vote_signature(vote1)
    /\ verify_vote_signature(vote2)
    /\ vote1.sender = vote2.sender
    /\ \/ vote1.message.ffg_source.chkp_slot < vote2.message.ffg_source.chkp_slot
       \/ /\ vote1.message.ffg_source.chkp_slot = vote2.message.ffg_source.chkp_slot
          /\ vote1.message.ffg_source.block_slot < vote2.message.ffg_source.block_slot
    /\ vote2.message.ffg_target.chkp_slot < vote1.message.ffg_target.chkp_slot

\* is_slashable_offence without its surround disjuncts
is_slashable_offence_by_equivocation_only(vote1, vote2) ==
    are_equivocating_votes(vote1, vote2)

\* is_slashable_offence without its first disjunct
is_slashable_offence_by_surround_only(vote1, vote2) ==
    \/ does_first_vote_surround_second_vote(vote1, vote2)
    \/ does_first_vote_surround_second_vote(vote2, vote1)

is_slashable_offence(vote1, vote2) ==
    \/ are_equivocating_votes(vote1, vote2)
    \/ does_first_vote_surround_second_vote(vote1, vote2)
    \/ does_first_vote_surround_second_vote(vote2, vote1)

is_slashable_node(node, vote1, vote2) ==
    /\ node = vote1.sender
    /\ is_slashable_offence(vote1, vote2)

get_slashabe_nodes(votes) ==
    {vote.sender :
        vote \in {vote1 \in votes :
                     {vote2 \in votes : is_slashable_offence(vote1, vote2)} # {}}}

(***************************************************************************)
(* protocols/rlmd/helpers.py                                               *)
(* Every function here takes the NodeState of rlmd_data_structures.py and  *)
(* reads its CommonNodeState as node_state.common.                         *)
(***************************************************************************)
\* record.field: reading a field that the record does not hold is an
\* AttributeError (pyrsistent PMap.__getattr__)
PRecord_get(record, field) ==
    IF field \in DOMAIN record THEN Return(record[field]) ELSE Raised

\* `not` of a value that a call may not have returned
py_not(result) == IF result.raised THEN Raised ELSE Return(~result.value)

get_slot_from_time(time, node_state) ==
    LET common == PRecord_get(node_state, "common")
    IN  IF common.raised THEN Raised
        ELSE Return(time \div (4 * common.value.configuration.delta))

get_phase_from_time(time, node_state) ==
    LET common == PRecord_get(node_state, "common")
        time_in_slot == time % (4 * common.value.configuration.delta)
    IN  IF common.raised THEN Raised
        ELSE IF time_in_slot >= 3 * common.value.configuration.delta THEN Return("MERGE")
        ELSE IF time_in_slot >= 2 * common.value.configuration.delta THEN Return("CONFIRM")
        ELSE IF time_in_slot >= common.value.configuration.delta THEN Return("VOTE")
        ELSE Return("PROPOSE")

\* node_state.common is read inside the lambda: the filter of an empty set
\* returns without reading it
filter_out_GHOST_votes_non_descendant_of_block(block, votes, node_state) ==
    pset_filter_raising(
        [vote \in votes |->
            LET common == PRecord_get(node_state, "common")
            IN  IF common.raised THEN Raised
                ELSE Return(
                    /\ has_block_hash(vote.message.head_hash, common.value)
                    /\ is_ancestor_descendant_relationship(
                           block,
                           get_block_from_hash(vote.message.head_hash, common.value),
                           common.value))])

is_GHOST_vote_for_block_in_blockchain(vote, blockchainHead, node_state) ==
    LET common == PRecord_get(node_state, "common")
    IN  IF common.raised THEN Raised
        ELSE Return(
            /\ has_block_hash(vote.message.head_hash, common.value)
            /\ is_ancestor_descendant_relationship(
                   get_block_from_hash(vote.message.head_hash, common.value),
                   blockchainHead,
                   common.value))

filter_out_GHOST_votes_not_for_blocks_in_blockchain(votes, blockchainHead, node_state) ==
    pset_filter_raising(
        [vote \in votes |->
            is_GHOST_vote_for_block_in_blockchain(vote, blockchainHead, node_state)])

filter_out_GHOST_votes_for_blocks_in_blockchain(votes, blockchainHead, node_state) ==
    pset_filter_raising(
        [vote \in votes |->
            py_not(is_GHOST_vote_for_block_in_blockchain(vote, blockchainHead, node_state))])

is_GHOST_vote_expired(vote, node_state) ==
    LET common == PRecord_get(node_state, "common")
    IN  IF common.raised THEN Raised
        ELSE Return(vote.message.slot + common.value.configuration.eta
                        < common.value.current_slot)

\* pset_filter keeps the votes for which the predicate is true
filter_out_expired_GHOST_votes(votes, node_state) ==
    pset_filter_raising([vote \in votes |-> is_GHOST_vote_expired(vote, node_state)])

\* The loop keeps, for each sender, the first vote it meets among those of
\* the sender's greatest slot; the value is the set of the results that
\* some iteration order of `votes` gives: one latest vote for each sender.
RECURSIVE lmd_of_senders(_, _)
lmd_of_senders(senders, votes) ==
    IF senders = {} THEN {{}}
    ELSE LET s == CHOOSE x \in senders : TRUE
             latest == {vote \in votes :
                          /\ vote.sender = s
                          /\ \A other \in votes :
                                other.sender = s => other.message.slot <= vote.message.slot}
         IN  {{vote} \cup rest : vote \in latest, rest \in lmd_of_senders(senders \ {s}, votes)}

filter_out_non_LMD_GHOST_votes(votes) ==
    lmd_of_senders({vote.sender : vote \in votes}, votes)

\* node_state.common.view_votes is an argument of pset_filter
is_equivocating_GHOST_vote(vote, node_state) ==
    LET common == PRecord_get(node_state, "common")
    IN  IF common.raised THEN Raised
        ELSE Return({vote_check \in common.value.view_votes :
                        /\ vote_check.message.slot = vote.message.slot
                        /\ vote_check.sender = vote.sender
                        /\ vote_check.message.head_hash # vote.message.head_hash} # {})

filter_out_GHOST_equivocating_votes(votes, node_state) ==
    pset_filter_raising(
        [vote \in votes |-> py_not(is_equivocating_GHOST_vote(vote, node_state))])

\* verify_vote_signature is the first conjunct: node_state.common is read
\* for a vote with a good signature only
valid_vote(vote, node_state) ==
    IF ~verify_vote_signature(vote) THEN Return(FALSE)
    ELSE LET common == PRecord_get(node_state, "common")
             ffg == valid_FFG_vote(vote, common.value)
         IN  IF common.raised THEN Raised
             ELSE IF ffg.raised \/ ~ffg.value THEN ffg
             ELSE Return(
                 /\ has_block_hash(vote.message.head_hash, common.value)
                 /\ is_complete_chain(
                        get_block_from_hash(vote.message.head_hash, common.value), common.value)
                 /\ is_validator(vote.sender,
                        get_validator_set_for_slot(
                            get_block_from_hash(vote.message.head_hash, common.value),
                            vote.message.slot, common.value))
                 /\ is_ancestor_descendant_relationship(
                        get_block_from_hash(vote.message.ffg_target.block_hash, common.value),
                        get_block_from_hash(vote.message.head_hash, common.value),
                        common.value))

filter_out_invalid_votes(votes, node_state) ==
    pset_filter_raising([vote \in votes |-> valid_vote(vote, node_state)])

RECURSIVE get_votes_included_in_blockchain(_, _)
get_votes_included_in_blockchain(block, node_state) ==
    LET common == PRecord_get(node_state, "common")
        parent == get_block_from_hash(block.parent_hash, common.value)
    IN  IF common.raised THEN Raised
        ELSE IF block = common.value.configuration.genesis
                \/ ~has_block_hash(block.parent_hash, common.value)
             THEN Return(block.votes)
        ELSE Return(pset_merge(
                        block.votes,
                        get_votes_included_in_blockchain(parent, node_state).value))

get_votes_included_in_blocks(blocks) ==
    pset_merge_flatten({b.votes : b \in blocks})

RECURSIVE pset_sum_votes(_, _)
pset_sum_votes(votes, validatorBalances) ==
    IF votes = {} THEN 0
    ELSE LET vote == CHOOSE x \in votes : TRUE
         IN validatorBalances[vote.sender] + pset_sum_votes(votes \ {vote}, validatorBalances)

\* node_state.common is read inside the lambda of pset_filter
get_GHOST_weight(block, votes, node_state, validatorBalances) ==
    LET counted ==
            pset_filter_raising(
                [vote \in votes |->
                    LET common == PRecord_get(node_state, "common")
                    IN  IF common.raised THEN Raised
                        ELSE Return(
                            /\ has_block_hash(vote.message.head_hash, common.value)
                            /\ is_ancestor_descendant_relationship(
                                   block,
                                   get_block_from_hash(vote.message.head_hash, common.value),
                                   common.value)
                            /\ is_validator(vote.sender, validatorBalances))])
    IN  IF counted.raised THEN Raised
        ELSE Return(pset_sum_votes(counted.value, validatorBalances))

get_children(block, node_state) ==
    LET common == PRecord_get(node_state, "common")
    IN  IF common.raised THEN Raised
        ELSE Return({b \in get_all_blocks(common.value) : b.parent_hash = block_hash(block)})

\* the set of the blocks the descent can end on: pset_max picks any child
\* of greatest GHOST weight
RECURSIVE find_head_from(_, _, _, _)
find_head_from(block, votes, node_state, validatorBalances) ==
    LET children == get_children(block, node_state)
        weight(child) == get_GHOST_weight(child, votes, node_state, validatorBalances)
        best_children ==
            {c \in children.value :
                \A d \in children.value : weight(d).value <= weight(c).value}
        descents ==
            {find_head_from(best_child, votes, node_state, validatorBalances) :
                best_child \in best_children}
    IN  IF children.raised THEN Raised
        ELSE IF Cardinality(children.value) = 0 THEN Return({block})
        ELSE IF \E child \in children.value : weight(child).raised THEN Raised
        ELSE IF \E descent \in descents : descent.raised THEN Raised
        ELSE Return(UNION {descent.value : descent \in descents})

\* relevant_votes of get_head: the set of the vote sets the chain of filters
\* can give, one for each result of the LMD loop and each greatest justified
\* checkpoint pset_max can pick
relevant_votes(node_state) ==
    LET common == PRecord_get(node_state, "common")
        greatest == get_greatest_justified_checkpoint(common.value)
        valid == filter_out_invalid_votes(common.value.view_votes, node_state)
        non_equivocating == filter_out_GHOST_equivocating_votes(valid.value, node_state)
        kept == filter_out_expired_GHOST_votes(non_equivocating.value, node_state)
        results ==
            {filter_out_GHOST_votes_non_descendant_of_block(
                 get_block_from_hash(gjc.block_hash, common.value), lmd, node_state) :
               gjc \in greatest.value, lmd \in filter_out_non_LMD_GHOST_votes(kept.value)}
    IN  IF common.raised THEN Raised
        ELSE IF greatest.raised \/ valid.raised THEN Raised
        ELSE IF non_equivocating.raised THEN Raised
        ELSE IF kept.raised THEN Raised
        ELSE IF \E result \in results : result.raised THEN Raised
        ELSE Return({result.value : result \in results})

\* The set of the blocks get_head can return.  The three calls of
\* get_greatest_justified_checkpoint iterate the same set and return the
\* same checkpoint.  node_state.common is read for the first argument of the
\* outermost call, before any filter runs.
get_head(node_state) ==
    LET common == PRecord_get(node_state, "common")
        greatest == get_greatest_justified_checkpoint(common.value)
        valid == filter_out_invalid_votes(common.value.view_votes, node_state)
        non_equivocating == filter_out_GHOST_equivocating_votes(valid.value, node_state)
        kept == filter_out_expired_GHOST_votes(non_equivocating.value, node_state)
        descents ==
            {LET seed == get_block_from_hash(gjc.block_hash, common.value)
                 relevant == filter_out_GHOST_votes_non_descendant_of_block(seed, lmd, node_state)
                 validatorBalances ==
                     get_validator_set_for_slot(seed, common.value.current_slot, common.value)
             IN  IF relevant.raised THEN Raised
                 ELSE find_head_from(seed, relevant.value, node_state, validatorBalances) :
               gjc \in greatest.value, lmd \in filter_out_non_LMD_GHOST_votes(kept.value)}
    IN  IF common.raised THEN Raised
        ELSE IF greatest.raised \/ valid.raised THEN Raised
        ELSE IF non_equivocating.raised THEN Raised
        ELSE IF kept.raised THEN Raised
        ELSE IF \E descent \in descents : descent.raised THEN Raised
        ELSE Return(UNION {descent.value : descent \in descents})

\* the statements of is_confirmed after the call of get_head, with the head
\* and the greatest justified checkpoint the calls returned
is_confirmed_on(block, head_block, gjc, node_state) ==
    LET common == PRecord_get(node_state, "common")
        validatorBalances ==
            get_validator_set_for_slot(
                get_block_from_hash(gjc.block_hash, common.value),
                common.value.current_slot, common.value)
        tot_validator_set_weight ==
            validator_set_weight(DOMAIN validatorBalances, validatorBalances)
        weight == get_GHOST_weight(block, common.value.view_votes, node_state, validatorBalances)
    IN  IF common.raised THEN Raised
        ELSE IF ~is_ancestor_descendant_relationship(block, head_block, common.value)
             THEN Return(FALSE)
        ELSE IF weight.raised THEN Raised
        ELSE Return(weight.value * 3 >= tot_validator_set_weight * 2)

\* the set of the answers is_confirmed can give, one for each block get_head
\* can return
is_confirmed(block, node_state) ==
    LET head == get_head(node_state)
        common == PRecord_get(node_state, "common")
        greatest == get_greatest_justified_checkpoint(common.value)
        answers == {is_confirmed_on(block, head_block, gjc, node_state) :
                       head_block \in head.value, gjc \in greatest.value}
    IN  IF head.raised THEN Raised
        ELSE IF greatest.raised THEN Raised
        ELSE IF \E answer \in answers : answer.raised THEN Raised
        ELSE Return({answer.value : answer \in answers})

\* the statements of votes_to_include_in_proposed_block after the call of
\* get_head, with the head it returned
votes_to_include_on_head(head_block, node_state) ==
    LET common == PRecord_get(node_state, "common")
        valid == filter_out_invalid_votes(common.value.view_votes, node_state)
        votes_for_blocks_in_canonical_chain ==
            filter_out_GHOST_votes_not_for_blocks_in_blockchain(
                valid.value, head_block, node_state)
        included == get_votes_included_in_blockchain(head_block, node_state)
    IN  IF common.raised THEN Raised
        ELSE IF valid.raised THEN Raised
        ELSE IF votes_for_blocks_in_canonical_chain.raised \/ included.raised THEN Raised
        ELSE Return(votes_for_blocks_in_canonical_chain.value \ included.value)

\* the set of the vote sets it can return, one for each block get_head can
\* return
votes_to_include_in_proposed_block(node_state) ==
    LET head == get_head(node_state)
    IN  IF head.raised THEN Raised
        ELSE IF \E head_block \in head.value :
                    votes_to_include_on_head(head_block, node_state).raised THEN Raised
        ELSE Return({votes_to_include_on_head(head_block, node_state).value :
                        head_block \in head.value})

get_block_body(node_state) == "body"

\* The two calls of get_head, in get_new_block and in
\* votes_to_include_in_proposed_block, iterate the same sets and return the
\* same block.
get_new_block(node_state) ==
    LET head == get_head(node_state)
        common == PRecord_get(node_state, "common")
    IN  IF head.raised THEN Raised
        ELSE IF \E head_block \in head.value :
                    votes_to_include_on_head(head_block, node_state).raised THEN Raised
        ELSE Return({NewBlock(block_hash(head_block),
                              common.value.current_slot,
                              votes_to_include_on_head(head_block, node_state).value,
                              get_block_body(common.value)) :
                        head_block \in head.value})

\* the statements of get_votes_to_include_in_propose_message_view after the
\* call of get_head, with the head it returned and a greatest justified
\* checkpoint; from_set_to_pvector orders the set, the value is the set
propose_message_view_on_head(head_block, gjc, node_state) ==
    LET common == PRecord_get(node_state, "common")
        valid == filter_out_invalid_votes(common.value.view_votes, node_state)
        kept == filter_out_expired_GHOST_votes(valid.value, node_state)
        descending ==
            filter_out_GHOST_votes_non_descendant_of_block(
                get_block_from_hash(gjc.block_hash, common.value), kept.value, node_state)
        off_chain ==
            filter_out_GHOST_votes_for_blocks_in_blockchain(
                descending.value, head_block, node_state)
    IN  IF common.raised THEN Raised
        ELSE IF ~has_block_hash(gjc.block_hash, common.value) THEN Raised
        ELSE IF valid.raised THEN Raised
        ELSE IF kept.raised THEN Raised
        ELSE IF descending.raised THEN Raised
        ELSE off_chain

get_votes_to_include_in_propose_message_view(node_state) ==
    LET head == get_head(node_state)
        common == PRecord_get(node_state, "common")
        greatest == get_greatest_justified_checkpoint(common.value)
        results == {propose_message_view_on_head(head_block, gjc, node_state) :
                       head_block \in head.value, gjc \in greatest.value}
    IN  IF head.raised \/ greatest.raised THEN Raised
        ELSE IF \E r \in results : r.raised THEN Raised
        ELSE Return({r.value : r \in results})

\* PRecord.set: a field that the record does not declare is an
\* AttributeError (pyrsistent; my_plugin.py checks the same rule statically)
PRecord_set(record, field, value) ==
    IF record.raised THEN record
    ELSE IF field \in DOMAIN record.value
         THEN Return([record.value EXCEPT ![field] = value])
    ELSE Raised

\* execute_view_merge returning a state that carries the view, with the
\* buffered votes stored as the vote view instead of merged into it
execute_view_merge_replacing_votes(node_state) ==
    Return([current_phase |-> node_state.current_phase,
            buffer_votes |-> {},
            buffer_blocks |-> pmap_get_empty,
            common |-> [CommonNodeState EXCEPT
                           !.view_blocks = pmap_merge(@, node_state.buffer_blocks),
                           !.view_votes = node_state.buffer_votes]])

\* The argument of the first `set` reads node_state.common; the votes
\* included in blocks are taken from the block view the first statement
\* wrote.
execute_view_merge(node_state) ==
    LET common == PRecord_get(node_state, "common")
        s1 == PRecord_set(
                  Return(node_state), "common",
                  [common.value EXCEPT
                      !.view_blocks = pmap_merge(common.value.view_blocks,
                                                 node_state.buffer_blocks)])
        s2 == PRecord_set(
                  s1, "common",
                  [s1.value.common EXCEPT
                      !.view_votes =
                          pset_merge(
                              pset_merge(s1.value.common.view_votes, s1.value.buffer_votes),
                              get_votes_included_in_blocks(get_all_blocks(s1.value.common)))])
        s3 == PRecord_set(s2, "buffer_votes", {})
        s4 == PRecord_set(s3, "buffer_blocks", pmap_get_empty)
    IN  IF common.raised THEN Raised
        ELSE s4

(***************************************************************************)
(* ga_based/helpers.py                                                     *)
(***************************************************************************)
ga_get_slot_from_time(time, node_state) == time \div (4 * node_state.configuration.delta)

ga_get_phase_from_time(time, node_state) ==
    LET time_in_slot == time % (4 * node_state.configuration.delta)
    IN  IF time_in_slot >= 3 * node_state.configuration.delta THEN "MERGE"
        ELSE IF time_in_slot >= 2 * node_state.configuration.delta THEN "CONFIRM"
        ELSE IF time_in_slot >= node_state.configuration.delta THEN "VOTE"
        ELSE "PROPOSE"

ga_get_slot(node_state) == ga_get_slot_from_time(node_state.time, node_state)

ga_has_block_hash(hash, node_state) == pmap_has(node_state.blocks, hash)

\* only used where ga_has_block_hash holds; the callers model the abort
ga_get_block_from_hash(hash, node_state) == node_state.blocks[hash]

ga_has_parent(block, node_state) == ga_has_block_hash(block.parent_hash, node_state)

ga_get_parent(block, node_state) == ga_get_block_from_hash(block.parent_hash, node_state)

ga_get_all_blocks(node_state) == pmap_values(node_state.blocks)

RECURSIVE ga_is_complete_chain(_, _)
ga_is_complete_chain(block, node_state) ==
    IF block = genesis THEN TRUE
    ELSE IF ~ga_has_parent(block, node_state) THEN FALSE
    ELSE ga_is_complete_chain(ga_get_parent(block, node_state), node_state)

RECURSIVE ga_is_ancestor_descendant_relationship(_, _, _)
ga_is_ancestor_descendant_relationship(ancestor, descendant, node_state) ==
    IF ancestor = descendant THEN TRUE
    ELSE IF descendant = genesis THEN FALSE
    ELSE /\ ga_has_parent(descendant, node_state)
         /\ ga_is_ancestor_descendant_relationship(
                ancestor, ga_get_parent(descendant, node_state), node_state)

\* The conjuncts in Python's order: the source and target blocks are looked
\* up for the fifth conjunct, before the has_block_hash conjuncts on them.
ga_valid_vote(vote, node_state) ==
    IF ~verify_vote_signature(vote) THEN Return(FALSE)
    ELSE IF ~ga_has_block_hash(vote.message.head_hash, node_state) THEN Return(FALSE)
    ELSE IF ~ga_is_complete_chain(
                 ga_get_block_from_hash(vote.message.head_hash, node_state), node_state)
         THEN Return(FALSE)
    ELSE IF ~is_validator(vote.sender,
                get_validator_set_for_slot(
                    ga_get_block_from_hash(vote.message.head_hash, node_state),
                    vote.message.slot, node_state))
         THEN Return(FALSE)
    ELSE IF ~ga_has_block_hash(vote.message.ffg_source.block_hash, node_state) THEN Raised
    ELSE IF ~ga_has_block_hash(vote.message.ffg_target.block_hash, node_state) THEN Raised
    ELSE Return(
        /\ ga_is_ancestor_descendant_relationship(
               ga_get_block_from_hash(vote.message.ffg_source.block_hash, node_state),
               ga_get_block_from_hash(vote.message.ffg_target.block_hash, node_state),
               node_state)
        /\ ga_is_ancestor_descendant_relationship(
               ga_get_block_from_hash(vote.message.ffg_target.block_hash, node_state),
               ga_get_block_from_hash(vote.message.head_hash, node_state),
               node_state)
        /\ vote.message.ffg_source.chkp_slot < vote.message.ffg_target.chkp_slot
        /\ ga_has_block_hash(vote.message.ffg_source.block_hash, node_state)
        /\ ga_get_block_from_hash(vote.message.ffg_source.block_hash, node_state).slot
               = vote.message.ffg_source.block_slot
        /\ ga_has_block_hash(vote.message.ffg_target.block_hash, node_state)
        /\ ga_get_block_from_hash(vote.message.ffg_target.block_hash, node_state).slot
               = vote.message.ffg_target.block_slot)

ga_filter_out_invalid_votes(votes, node_state) ==
    pset_filter_raising([vote \in votes |-> ga_valid_vote(vote, node_state)])

is_equivocating_head_vote(vote, node_state) ==
    {vote_check \in node_state.votes :
        /\ vote_check.message.slot = vote.message.slot
        /\ vote_check.sender = vote.sender
        /\ vote_check.message.head_hash # vote.message.head_hash} # {}

filter_out_head_equivocating_votes(votes, node_state) ==
    {vote \in votes : ~is_equivocating_head_vote(vote, node_state)}

is_head_vote_expired(vote, node_state) ==
    vote.message.slot + node_state.configuration.eta < ga_get_slot(node_state)

\* pset_filter keeps the votes for which the predicate is true
filter_out_expired_head_votes(votes, node_state) ==
    {vote \in votes : is_head_vote_expired(vote, node_state)}

\* A call of filter_out_non_LMD_head_votes with the tuple `arguments`: the
\* function declares the one parameter `votes`, any other number of
\* arguments is a TypeError.  The loop is the one of
\* filter_out_non_LMD_GHOST_votes.
filter_out_non_LMD_head_votes(arguments) ==
    IF Len(arguments) # 1 THEN Raised
    ELSE Return(lmd_of_senders({vote.sender : vote \in arguments[1]}, arguments[1]))

\* pmap_get of a vote without an entry in vote_receival_times is a KeyError
is_head_vote_received_timely(vote, node_state) ==
    IF ~pmap_has(node_state.vote_receival_times, vote) THEN Raised
    ELSE Return(node_state.vote_receival_times[vote]
                    <= 4 * node_state.configuration.delta * ga_get_slot(node_state)
                           - node_state.configuration.delta)

filter_out_late_received_head_votes(votes, node_state) ==
    pset_filter_raising([vote \in votes |-> is_head_vote_received_timely(vote, node_state)])

ga_get_GHOST_weight(block, votes, node_state, validatorBalances) ==
    pset_sum_votes(
        {vote \in votes :
            /\ ga_has_block_hash(vote.message.head_hash, node_state)
            /\ ga_is_ancestor_descendant_relationship(
                   block, ga_get_block_from_hash(vote.message.head_hash, node_state), node_state)
            /\ is_validator(vote.sender, validatorBalances)},
        validatorBalances)

ga_get_children(block, node_state) ==
    {b \in ga_get_all_blocks(node_state) : b.parent_hash = block_hash(block)}

\* A call of find_head_from with the tuple `arguments`: the function declares
\* five parameters.  It gives pset_filter the set of children first and the
\* predicate second, and its recursive call passes four arguments.
RECURSIVE ga_find_head_from(_)
ga_find_head_from(arguments) ==
    IF Len(arguments) # 5 THEN Raised
    ELSE LET block == arguments[1]
             votes == arguments[2]
             node_state == arguments[3]
             validatorBalances == arguments[4]
             total_vote_weight == arguments[5]
             children == ga_get_children(block, node_state)
             children_with_majority_support ==
                 pset_filter(
                     PSetValue(children),
                     Callable([child \in children |->
                                  ga_get_GHOST_weight(child, votes, node_state, validatorBalances)
                                      > total_vote_weight \div 2]))
         IN  IF children_with_majority_support.raised THEN Raised
             ELSE IF Cardinality(children_with_majority_support.value) = 0 THEN Return(block)
             ELSE ga_find_head_from(
                      <<CHOOSE child \in children_with_majority_support.value : TRUE,
                        votes, node_state, validatorBalances>>)

\* get_head: the result of the descent for each set of relevant votes the
\* LMD loop can give
ga_get_head(node_state, is_proposal) ==
    LET valid == ga_filter_out_invalid_votes(node_state.votes, node_state)
        lmd == IF valid.raised THEN Raised
               ELSE filter_out_non_LMD_head_votes(
                        <<filter_out_expired_head_votes(
                              filter_out_head_equivocating_votes(valid.value, node_state),
                              node_state),
                          node_state>>)
        timely(votes) == IF is_proposal THEN Return(votes)
                         ELSE filter_out_late_received_head_votes(votes, node_state)
        validatorBalances ==
            get_validator_set_for_slot(
                node_state.highest_candidate_block, ga_get_slot(node_state), node_state)
        descent(relevant) ==
            ga_find_head_from(
                <<node_state.highest_candidate_block,
                  relevant,
                  node_state,
                  validatorBalances,
                  pset_sum_balances(
                      DOMAIN validatorBalances \cap {vote.sender : vote \in relevant},
                      validatorBalances)>>)
    IN  IF lmd.raised THEN Raised
        ELSE IF \E votes \in lmd.value : timely(votes).raised THEN Raised
        ELSE IF \E votes \in lmd.value : descent(timely(votes).value).raised THEN Raised
        ELSE Return({descent(timely(votes).value).value : votes \in lmd.value})

\* ga_based/helpers.py, execute_view_merge: the second and third `set` name
\* the fields view_vote and buffer_vote; the record has votes and
\* buffer_votes, which the same statements read.
ga_execute_view_merge(node_state) ==
    LET s1 == PRecord_set(Return(node_state), "blocks",
                          pmap_merge(node_state.blocks, node_state.buffer_blocks))
        s2 == PRecord_set(s1, "view_vote",
                          pset_merge(
                              pset_merge(s1.value.votes, s1.value.buffer_votes),
                              get_votes_included_in_blocks(pmap_values(s1.value.blocks))))
        s3 == PRecord_set(s2, "buffer_vote", {})
        s4 == PRecord_set(s3, "buffer_blocks", pmap_get_empty)
    IN  s4

ga_genesis_checkpoint == Checkpoint(block_hash(genesis), 0, 0)

ga_get_set_FFG_targets(votes) == {vote.message.ffg_target : vote \in votes}

RECURSIVE ga_is_justified_checkpoint(_, _)

ga_is_FFG_vote_in_support_of_checkpoint_justification(vote, checkpoint, node_state) ==
    LET valid == ga_valid_vote(vote, node_state)
    IN  IF valid.raised \/ ~valid.value THEN valid
        ELSE IF vote.message.ffg_target.chkp_slot # checkpoint.chkp_slot THEN Return(FALSE)
        ELSE IF ~ga_has_block_hash(checkpoint.block_hash, node_state) THEN Raised
        ELSE IF ~ga_is_ancestor_descendant_relationship(
                    ga_get_block_from_hash(checkpoint.block_hash, node_state),
                    ga_get_block_from_hash(vote.message.ffg_target.block_hash, node_state),
                    node_state)
             THEN Return(FALSE)
        ELSE IF ~ga_is_ancestor_descendant_relationship(
                    ga_get_block_from_hash(vote.message.ffg_source.block_hash, node_state),
                    ga_get_block_from_hash(checkpoint.block_hash, node_state),
                    node_state)
             THEN Return(FALSE)
        ELSE ga_is_justified_checkpoint(vote.message.ffg_source, node_state)

ga_get_validators_in_FFG_support_of_checkpoint_justification(votes, checkpoint, node_state) ==
    LET supporting ==
            pset_filter_raising(
                [vote \in votes |->
                    ga_is_FFG_vote_in_support_of_checkpoint_justification(vote, checkpoint, node_state)])
    IN  IF supporting.raised THEN Raised
        ELSE Return({vote.sender : vote \in supporting.value})

ga_is_justified_checkpoint(checkpoint, node_state) ==
    IF checkpoint = ga_genesis_checkpoint THEN Return(TRUE)
    ELSE IF \/ ~ga_has_block_hash(checkpoint.block_hash, node_state)
            \/ ~ga_is_complete_chain(
                    ga_get_block_from_hash(checkpoint.block_hash, node_state), node_state)
         THEN Return(FALSE)
    ELSE LET validatorBalances ==
                 get_validator_set_for_slot(
                     ga_get_block_from_hash(checkpoint.block_hash, node_state),
                     checkpoint.block_slot, node_state)
             supporters ==
                 ga_get_validators_in_FFG_support_of_checkpoint_justification(
                     node_state.votes, checkpoint, node_state)
             tot_validator_set_weight ==
                 validator_set_weight(DOMAIN validatorBalances, validatorBalances)
         IN  IF supporters.raised THEN Raised
             ELSE Return(validator_set_weight(supporters.value, validatorBalances) * 3
                             >= tot_validator_set_weight * 2)

ga_get_justified_checkpoints(node_state) ==
    LET justified ==
            pset_filter_raising(
                [checkpoint \in ga_get_set_FFG_targets(node_state.votes) |->
                    ga_is_justified_checkpoint(checkpoint, node_state)])
    IN  IF justified.raised THEN Raised
        ELSE Return(justified.value \cup {ga_genesis_checkpoint})

\* pset_max over the key (chkp_slot, block_slot): the value is the set of the
\* checkpoints it can return
ga_get_greatest_justified_checkpoint(node_state) ==
    LET justified == ga_get_justified_checkpoints(node_state)
    IN  IF justified.raised THEN Raised
        ELSE Return({c \in justified.value :
                        \A d \in justified.value : justified_key_leq(d, c)})

\* pset_filter keeps the blocks b with is_ancestor_descendant_relationship(b, block)
ga_filter_out_blocks_non_ancestor_of_block(block, blocks, node_state) ==
    {b \in blocks : ga_is_ancestor_descendant_relationship(b, block, node_state)}

\* get_block_from_hash of a hash that is not in the view is a KeyError
get_greatest_justified_block(node_state) ==
    IF ~ga_has_block_hash(node_state.greatest_justified_checkpoint.block_hash, node_state)
    THEN Raised
    ELSE Return(ga_get_block_from_hash(
                    node_state.greatest_justified_checkpoint.block_hash, node_state))

\* what a Python call hands to `if`: None, or a bool
PyNone == [none |-> TRUE]

PyBool(b) == [none |-> FALSE, bool |-> b]

truth(x) == ~x.none /\ x.bool

\* the last statement of is_recent_quorum_for_block, an expression: the
\* GHOST weight of the votes of the previous slot against two thirds of the
\* weight of the validator set
recent_quorum_comparison(votes, block, node_state) ==
    LET previous_slot == ga_get_slot(node_state) - 1
        votes_from_previous_slot == {vote \in votes : vote.message.slot = previous_slot}
        validatorBalances ==
            get_validator_set_for_slot(
                get_greatest_justified_block(node_state).value,
                ga_get_slot(node_state), node_state)
        tot_validator_set_weight ==
            validator_set_weight(DOMAIN validatorBalances, validatorBalances)
    IN  ga_get_GHOST_weight(block, votes_from_previous_slot, node_state, validatorBalances) * 3
            >= tot_validator_set_weight * 2

\* is_recent_quorum_for_block evaluates the comparison and has no return
\* statement: the call gives None
is_recent_quorum_for_block(votes, block, node_state) ==
    LET comparison == recent_quorum_comparison(votes, block, node_state)
    IN  PyNone

\* The value is the set of the blocks pset_max can return.
get_highest_candidate_block(node_state) ==
    LET greatest_justified_block == get_greatest_justified_block(node_state)
    IN  IF greatest_justified_block.raised THEN Raised
        ELSE LET descendants_of_greatest_justified ==
                     ga_filter_out_blocks_non_ancestor_of_block(
                         greatest_justified_block.value, ga_get_all_blocks(node_state), node_state)
                 candidate_blocks ==
                     {block \in descendants_of_greatest_justified :
                         truth(is_recent_quorum_for_block(node_state.votes, block, node_state))}
             IN  IF Cardinality(candidate_blocks) > 0
                 THEN Return({b \in candidate_blocks :
                                 \A c \in candidate_blocks : c.slot <= b.slot})
                 ELSE Return({greatest_justified_block.value})

\* update_justified_and_candidate reading the candidate from the state it
\* was given
update_justified_and_candidate_from_the_state_given(node_state) ==
    LET greatest == ga_get_greatest_justified_checkpoint(node_state)
        candidate == get_highest_candidate_block(node_state)
    IN  IF greatest.raised \/ candidate.raised THEN Raised
        ELSE Return({[node_state EXCEPT !.greatest_justified_checkpoint = c,
                                         !.highest_candidate_block = b] :
                        c \in greatest.value, b \in candidate.value})

\* The value is the set of the states the two pset_max can give.
update_justified_and_candidate(node_state) ==
    LET greatest == ga_get_greatest_justified_checkpoint(node_state)
        first == IF greatest.raised THEN {}
                 ELSE {PRecord_set(Return(node_state), "greatest_justified_checkpoint", c) :
                          c \in greatest.value}
        second(s) == IF s.raised \/ get_highest_candidate_block(s.value).raised THEN {Raised}
                     ELSE {PRecord_set(s, "highest_candidate_block", b) :
                              b \in get_highest_candidate_block(s.value).value}
        results == UNION {second(s) : s \in first}
    IN  IF greatest.raised \/ \E r \in results : r.raised THEN Raised
        ELSE Return({r.value : r \in results})

(***************************************************************************)
(* pyspec/beacon_chain.py and pyspec/validator.py                          *)
(***************************************************************************)
SLOTS_PER_HISTORICAL_ROOT == 2^17

MIN_ATTESTATION_INCLUSION_DELAY == 1

ATTESTATION_REWARD_PERIOD == 8

MIN_SLOTS_TO_INACTIVITY_PENALTY == 128

K_DEEP_CONFIRMATION_PARAMETER == 64

EPOCHS_PER_FFG_STATE == 4192

SLOTS_PER_EPOCH == 32

GENESIS_SLOT == 0

\* the root of the block of the chain at `slot`
BlockRoot(slot) == [block_at |-> slot]

BeaconCheckpoint(chain_slot, checkpoint_slot) ==
    [root |-> BlockRoot(chain_slot), chain_slot |-> chain_slot, checkpoint_slot |-> checkpoint_slot]

BeaconCheckpoints ==
    {BeaconCheckpoint(0, 0), BeaconCheckpoint(1, 1), BeaconCheckpoint(1, 2),
     BeaconCheckpoint(2, 2), BeaconCheckpoint(3, 3)}

\* attestations of all the three validators and of one of them
Attestations ==
    {[data |-> [head |-> BlockRoot(target.checkpoint_slot), source |-> source, target |-> target],
      aggregation_bits |-> bits] :
        source \in BeaconCheckpoints, target \in BeaconCheckpoints,
        bits \in {<<TRUE, TRUE, TRUE>>, <<TRUE, FALSE, FALSE>>}}

InitBeaconState ==
    /\ beacon_state = [slot |-> GENESIS_SLOT,
                       justified_checkpoints |-> <<BeaconCheckpoint(0, 0)>>,
                       justified_checkpoint |-> BeaconCheckpoint(0, 0),
                       finalized_checkpoint |-> BeaconCheckpoint(0, 0)]
    /\ beacon_exception = "none"
    /\ attestation_data = "none"

\* a Python int as a value that can also be None
PyInt(n) == [none |-> FALSE, int |-> n]

\* the outcome of a call on the state: the state as the call left it and
\* the exception that ended it ("none" when it returned)
Outcome(state, exception) == [state |-> state, exception |-> exception]

InList(x, list) == \E i \in 1..Len(list) : list[i] = x

\* `assert slot < state.slot <= slot + SLOTS_PER_HISTORICAL_ROOT`
get_block_root(state, slot) ==
    IF ~(slot < state.slot /\ state.slot <= slot + SLOTS_PER_HISTORICAL_ROOT) THEN Raised
    ELSE Return(BlockRoot(slot % SLOTS_PER_HISTORICAL_ROOT))

\* get_k_deep_slot with the return statement it lacks
get_k_deep_slot_returning(slot) ==
    LET k_deep_slot == IF slot >= K_DEEP_CONFIRMATION_PARAMETER
                       THEN slot - K_DEEP_CONFIRMATION_PARAMETER
                       ELSE GENESIS_SLOT
    IN  PyInt(k_deep_slot)

\* get_k_deep_slot assigns the local k_deep_slot in both branches and has no
\* return statement: the call gives None
get_k_deep_slot(slot) ==
    LET k_deep_slot == IF slot >= K_DEEP_CONFIRMATION_PARAMETER
                       THEN slot - K_DEEP_CONFIRMATION_PARAMETER
                       ELSE GENESIS_SLOT
    IN  PyNone

\* Epoch(slot // SLOTS_PER_EPOCH): the division of None is a TypeError
compute_epoch_at_slot(slot) ==
    IF slot.none THEN Raised ELSE Return(slot.int \div SLOTS_PER_EPOCH)

\* the indices of the set bits, of the three validators
get_indexed_attestation(state, attestation) ==
    LET k_deep_slot == get_k_deep_slot(attestation.data.target.checkpoint_slot)
        epoch == compute_epoch_at_slot(k_deep_slot)
    IN  IF epoch.raised THEN Raised
        ELSE IF Len(attestation.aggregation_bits) # 3 THEN Raised
        ELSE Return({i \in 1..3 : attestation.aggregation_bits[i]})

\* Checkpoint declares root, chain_slot and checkpoint_slot: reading the
\* field `slot` of a checkpoint is an AttributeError
get_finality_delay(state) ==
    LET latest_finalizable_slot ==
            IF state.slot < GENESIS_SLOT + 2 THEN GENESIS_SLOT ELSE state.slot - 2
    IN  IF "slot" \notin DOMAIN state.finalized_checkpoint THEN Raised
        ELSE Return(latest_finalizable_slot - state.finalized_checkpoint.slot)

is_in_inactivity_leak(state) ==
    LET delay == get_finality_delay(state)
    IN  IF delay.raised THEN Raised
        ELSE Return(delay.value > MIN_SLOTS_TO_INACTIVITY_PENALTY)

\* the epoch of the slot of the state
get_current_epoch(state) == state.slot \div SLOTS_PER_EPOCH

\* The assert fails for a slot of an epoch more than EPOCHS_PER_FFG_STATE
\* before the current one.  The entry of every epoch in state.ffg_states is
\* the same: the three validators have balance 1.
get_ffg_state(state, slot) ==
    LET epoch == compute_epoch_at_slot(slot)
        current_epoch == get_current_epoch(state)
    IN  IF epoch.raised THEN Raised
        ELSE IF ~(epoch.value + EPOCHS_PER_FFG_STATE >= current_epoch) THEN Raised
        ELSE Return([ffg_balances |-> <<1, 1, 1>>, total_active_balance |-> 3])

\* The two assignments are made before the condition is evaluated; the
\* condition reads state.finalized_checkpoint.slot.
update_justified_and_finalized_checkpoints(state, source, target) ==
    LET appended == [state EXCEPT
                        !.justified_checkpoint = target,
                        !.justified_checkpoints = Append(@, target)]
    IN  IF "slot" \notin DOMAIN appended.finalized_checkpoint
        THEN Outcome(appended, "AttributeError")
        ELSE IF /\ appended.finalized_checkpoint.slot < source.checkpoint_slot
                /\ target.checkpoint_slot = source.checkpoint_slot + 1
        THEN Outcome(
                 [appended EXCEPT
                     !.finalized_checkpoint = source,
                     !.justified_checkpoints =
                         SelectSeq(@, LAMBDA checkpoint :
                                          checkpoint.checkpoint_slot >= source.checkpoint_slot)],
                 "none")
        ELSE Outcome(appended, "none")

\* The fields of the state that record the voters, the recent
\* justifications and the participation flags are not part of beacon_state;
\* the checkpoints do not depend on them.
process_attestation(state, attestation) ==
    LET source == attestation.data.source
        target == attestation.data.target
        indexed_attestation == get_indexed_attestation(state, attestation)
        ffg_state == get_ffg_state(state, get_k_deep_slot(target.checkpoint_slot))
        justification_balance ==
            Cardinality({i \in 1..Len(ffg_state.value.ffg_balances) :
                            attestation.aggregation_bits[i]})
        is_supermajority_link ==
            justification_balance >= (2 * ffg_state.value.total_active_balance) \div 3
    IN  IF ~(target.checkpoint_slot + MIN_ATTESTATION_INCLUSION_DELAY <= state.slot)
        THEN Outcome(state, "AssertionError")
        ELSE IF ~(target.chain_slot + K_DEEP_CONFIRMATION_PARAMETER >= target.checkpoint_slot)
        THEN Outcome(state, "AssertionError")
        ELSE IF ~InList(source, state.justified_checkpoints)
        THEN Outcome(state, "AssertionError")
        ELSE IF ~(target.checkpoint_slot > source.checkpoint_slot)
        THEN Outcome(state, "AssertionError")
        ELSE IF get_block_root(state, target.chain_slot).raised
        THEN Outcome(state, "AssertionError")
        ELSE IF target.root # get_block_root(state, target.chain_slot).value
        THEN Outcome(state, "AssertionError")
        ELSE IF indexed_attestation.raised THEN Outcome(state, "TypeError")
        ELSE IF ffg_state.raised THEN Outcome(state, "TypeError")
        ELSE IF is_supermajority_link /\ ~InList(target, state.justified_checkpoints)
        THEN update_justified_and_finalized_checkpoints(state, source, target)
        ELSE IF ~(state.slot <= target.checkpoint_slot + ATTESTATION_REWARD_PERIOD)
        THEN Outcome(state, "AssertionError")
        ELSE Outcome(state, "none")

\* max of None and an int is a TypeError
generate_attestation_data(head_state, latest_justified_checkpoint, confirmed_slot) ==
    LET source == latest_justified_checkpoint
        k_deep_slot == get_k_deep_slot(head_state.slot)
        safe_target_chain_slot ==
            IF k_deep_slot.int >= source.chain_slot THEN k_deep_slot.int ELSE source.chain_slot
        leak == is_in_inactivity_leak(head_state)
        target_chain_slot ==
            IF source.checkpoint_slot + 1 < head_state.slot \/ leak.value
            THEN safe_target_chain_slot
            ELSE IF safe_target_chain_slot >= confirmed_slot THEN safe_target_chain_slot
            ELSE confirmed_slot
        root == get_block_root(head_state, target_chain_slot)
    IN  IF k_deep_slot.none THEN Raised
        ELSE IF ~(source.checkpoint_slot + 1 < head_state.slot) /\ leak.raised THEN Raised
        ELSE IF root.raised THEN Raised
        ELSE Return([head |-> BlockRoot(head_state.slot),
                     source |-> source,
                     target |-> [root |-> root.value,
                                 chain_slot |-> target_chain_slot,
                                 checkpoint_slot |-> head_state.slot]])

(***************************************************************************)
(* The nodes as state machines.  The event handlers are not part of the    *)
(* sources; they follow sections 4.6 and 5 of the specification: received  *)
(* blocks and votes are staged in the buffers, the slot advances with the  *)
(* clock, and the view changes only by execute_view_merge.                 *)
(***************************************************************************)
\* The clock at `time` under `configuration`: the RLMD functions are given
\* the NodeState of the node, the ga_based functions a state with the time
\* and the configuration.
ClockState(time, configuration) ==
    LET node_state == [time |-> time, configuration |-> configuration]
    IN  [time |-> time,
         configuration |-> configuration,
         slot |-> get_slot_from_time(time, NodeState),
         phase |-> get_phase_from_time(time, NodeState),
         ga_slot |-> ga_get_slot_from_time(time, node_state),
         ga_phase |-> ga_get_phase_from_time(time, node_state)]

\* the NodeState and the exception of the RLMD node after construction
InitNodeState ==
    /\ current_phase = "PROPOSE"
    /\ buffer_blocks = pmap_get_empty
    /\ buffer_votes = {}
    /\ current_slot = 0
    /\ rlmd_exception = "none"

InitNodes ==
    /\ view_blocks = pmap_set(pmap_get_empty, block_hash(genesis), genesis)
    /\ view_votes = {}
    /\ InitNodeState
    /\ ga_node_state = [time |-> 0,
                        blocks |-> pmap_set(pmap_get_empty, block_hash(genesis), genesis),
                        votes |-> {},
                        buffer_blocks |-> pmap_get_empty,
                        buffer_votes |-> {},
                        vote_receival_times |-> [vote \in {} |-> 0],
                        highest_candidate_block |-> genesis,
                        greatest_justified_checkpoint |-> ga_genesis_checkpoint,
                        configuration |-> [delta |-> Delta, eta |-> Eta]]
    /\ ga_exception = "none"
    /\ vote_view = {}
    /\ slashable_nodes = {}
    /\ InitBeaconState

Init ==
    /\ InitNodes
    /\ clock = ClockState(0, [delta |-> Delta, eta |-> Eta])

on_block_received(block) ==
    /\ Cardinality(DOMAIN buffer_blocks \cup {block_hash(block)}) + Cardinality(buffer_votes)
           <= MaxBuffered
    /\ buffer_blocks' = pmap_set(buffer_blocks, block_hash(block), block)
    /\ rlmd_exception' = "none"
    /\ UNCHANGED <<view_blocks, view_votes, current_slot, current_phase, buffer_votes>>
    /\ UNCHANGED ga_vars
    /\ UNCHANGED slashing_vars
    /\ UNCHANGED clock_vars
    /\ UNCHANGED beacon_vars

on_vote_received(vote) ==
    /\ Cardinality(buffer_votes \cup {vote}) + Cardinality(DOMAIN buffer_blocks) <= MaxBuffered
    /\ buffer_votes' = buffer_votes \cup {vote}
    /\ rlmd_exception' = "none"
    /\ UNCHANGED <<view_blocks, view_votes, current_slot, current_phase, buffer_blocks>>
    /\ UNCHANGED ga_vars
    /\ UNCHANGED slashing_vars
    /\ UNCHANGED clock_vars
    /\ UNCHANGED beacon_vars

\* a call of execute_view_merge: the caller gets the new state, or the
\* exception and keeps the state it had
ExecuteViewMerge ==
    LET merged == execute_view_merge(NodeState)
    IN  /\ IF merged.raised
           THEN /\ rlmd_exception' = "AttributeError"
                /\ UNCHANGED <<view_blocks, view_votes, current_slot, current_phase,
                               buffer_blocks, buffer_votes>>
           ELSE /\ rlmd_exception' = "none"
                /\ view_blocks' = merged.value.common.view_blocks
                /\ view_votes' = merged.value.common.view_votes
                /\ current_slot' = merged.value.common.current_slot
                /\ current_phase' = merged.value.current_phase
                /\ buffer_blocks' = merged.value.buffer_blocks
                /\ buffer_votes' = merged.value.buffer_votes
        /\ UNCHANGED ga_vars
        /\ UNCHANGED slashing_vars
        /\ UNCHANGED clock_vars
        /\ UNCHANGED beacon_vars

AdvanceSlot ==
    /\ current_slot < MaxSlot
    /\ current_slot' = current_slot + 1
    /\ rlmd_exception' = "none"
    /\ UNCHANGED <<view_blocks, view_votes, current_phase, buffer_blocks, buffer_votes>>
    /\ UNCHANGED ga_vars
    /\ UNCHANGED slashing_vars
    /\ UNCHANGED clock_vars
    /\ UNCHANGED beacon_vars

Next ==
    \/ \E block \in AllBlocks : on_block_received(block)
    \/ \E vote \in AllVotes : on_vote_received(vote)
    \/ ExecuteViewMerge
    \/ AdvanceSlot

\* The RLMD node holding a view.  No call of the sources can put a block or
\* a vote into the view (execute_view_merge is the only writer), so the view
\* is the one its CommonNodeState was built with: a set of blocks with the
\* genesis block, the votes taken from `votes` and the votes the blocks
\* include.
InitViews(blocks, votes) ==
    /\ \E delivered_blocks \in SUBSET blocks : \E delivered_votes \in SUBSET votes :
           /\ view_blocks = [h \in {block_hash(b) : b \in delivered_blocks \cup {genesis}}
                                |-> BlockOf[h]]
           /\ view_votes = pset_merge(
                               delivered_votes,
                               get_votes_included_in_blocks(delivered_blocks))
    /\ InitNodeState
    /\ ga_node_state = [time |-> 0,
                        blocks |-> pmap_set(pmap_get_empty, block_hash(genesis), genesis),
                        votes |-> {},
                        buffer_blocks |-> pmap_get_empty,
                        buffer_votes |-> {},
                        vote_receival_times |-> [vote \in {} |-> 0],
                        highest_candidate_block |-> genesis,
                        greatest_justified_checkpoint |-> ga_genesis_checkpoint,
                        configuration |-> [delta |-> Delta, eta |-> Eta]]
    /\ ga_exception = "none"
    /\ vote_view = {}
    /\ slashable_nodes = {}
    /\ InitBeaconState
    /\ clock = ClockState(0, [delta |-> Delta, eta |-> Eta])

InitRlmd == InitViews(AllBlocks, AllVotes)

Spec == InitRlmd /\ [][Next]_vars

ga_on_block_received(block) ==
    /\ Cardinality(DOMAIN ga_node_state.buffer_blocks \cup {block_hash(block)})
           + Cardinality(ga_node_state.buffer_votes) <= MaxBuffered
    /\ ga_node_state' = [ga_node_state EXCEPT
                            !.buffer_blocks = pmap_set(@, block_hash(block), block)]
    /\ ga_exception' = "none"
    /\ UNCHANGED rlmd_vars
    /\ UNCHANGED slashing_vars
    /\ UNCHANGED clock_vars
    /\ UNCHANGED beacon_vars

ga_on_vote_received(vote) ==
    /\ Cardinality(ga_node_state.buffer_votes \cup {vote})
           + Cardinality(DOMAIN ga_node_state.buffer_blocks) <= MaxBuffered
    /\ ga_node_state' =
           [ga_node_state EXCEPT
               !.buffer_votes = @ \cup {vote},
               !.vote_receival_times =
                   IF pmap_has(@, vote) THEN @ ELSE pmap_set(@, vote, ga_node_state.time)]
    /\ ga_exception' = "none"
    /\ UNCHANGED rlmd_vars
    /\ UNCHANGED slashing_vars
    /\ UNCHANGED clock_vars
    /\ UNCHANGED beacon_vars

ga_on_tick ==
    /\ ga_node_state.time < MaxTime
    /\ ga_node_state' = [ga_node_state EXCEPT !.time = @ + 1]
    /\ ga_exception' = "none"
    /\ UNCHANGED rlmd_vars
    /\ UNCHANGED slashing_vars
    /\ UNCHANGED clock_vars
    /\ UNCHANGED beacon_vars

\* a call of execute_view_merge: the caller gets the new state, or the
\* exception and keeps the state it had
GaExecuteViewMerge ==
    LET merged == ga_execute_view_merge(ga_node_state)
    IN  /\ IF merged.raised
           THEN /\ ga_exception' = "AttributeError"
                /\ UNCHANGED ga_node_state
           ELSE /\ ga_exception' = "none"
                /\ ga_node_state' = merged.value
        /\ UNCHANGED rlmd_vars
        /\ UNCHANGED slashing_vars
        /\ UNCHANGED clock_vars
        /\ UNCHANGED beacon_vars

NextGa ==
    \/ \E block \in AllBlocks : ga_on_block_received(block)
    \/ \E vote \in AllVotes : ga_on_vote_received(vote)
    \/ ga_on_tick
    \/ GaExecuteViewMerge

SpecGa == Init /\ [][NextGa]_vars

\* The functions of the ga_based node over its view: the node holds one of
\* the views below, its clock ticks and update_justified_and_candidate is
\* called on its state.
GaViewBlocks ==
    {{"G"}, {"G", "A1"}, {"G", "B1"}, {"G", "A1", "B1"}, {"G", "A1", "A2"}}

GaViewVotes == {voteJ1, voteJ2, voteSide3, voteF1, voteF2}

InitGaViews ==
    /\ view_blocks = pmap_set(pmap_get_empty, block_hash(genesis), genesis)
    /\ view_votes = {}
    /\ InitNodeState
    /\ \E hashes \in GaViewBlocks : \E votes \in SUBSET GaViewVotes :
           ga_node_state = [time |-> 0,
                            blocks |-> [h \in hashes |-> BlockOf[h]],
                            votes |-> votes,
                            buffer_blocks |-> pmap_get_empty,
                            buffer_votes |-> {},
                            vote_receival_times |-> [vote \in votes |-> 0],
                            highest_candidate_block |-> genesis,
                            greatest_justified_checkpoint |-> ga_genesis_checkpoint,
                            configuration |-> [delta |-> Delta, eta |-> Eta]]
    /\ ga_exception = "none"
    /\ vote_view = {}
    /\ slashable_nodes = {}
    /\ InitBeaconState
    /\ clock = ClockState(0, [delta |-> Delta, eta |-> Eta])

\* a call of update_justified_and_candidate: the caller gets the new state,
\* or the exception and keeps the state it had
GaUpdateJustifiedAndCandidate ==
    LET updated == update_justified_and_candidate(ga_node_state)
    IN  /\ IF updated.raised
           THEN /\ ga_exception' = "KeyError"
                /\ UNCHANGED ga_node_state
           ELSE /\ ga_exception' = "none"
                /\ ga_node_state' \in updated.value
        /\ UNCHANGED rlmd_vars
        /\ UNCHANGED slashing_vars
        /\ UNCHANGED clock_vars
        /\ UNCHANGED beacon_vars

NextGaViews ==
    \/ ga_on_tick
    \/ GaUpdateJustifiedAndCandidate

SpecGaViews == InitGaViews /\ [][NextGaViews]_vars

\* The RLMD node under the deliveries that exercise its FFG engine, which
\* reads the views and not the slot.
NextFFG ==
    \/ \E block \in AllBlocks : on_block_received(block)
    \/ \E vote \in FFGVotes : on_vote_received(vote)
    \/ ExecuteViewMerge

InitFFG == InitViews(AllBlocks, FFGVotes)

SpecFFG == InitFFG /\ [][NextFFG]_vars

\* The RLMD node under the deliveries of the blocks of two branches and of
\* votes of the three validators for both.
NextSafety ==
    \/ \E block \in SafetyBlocks : on_block_received(block)
    \/ \E vote \in SafetyVotes : on_vote_received(vote)
    \/ ExecuteViewMerge

InitSafety == InitViews(SafetyBlocks, SafetyVotes)

SpecSafety == InitSafety /\ [][NextSafety]_vars

\* The slashing detector as a machine: votes enter the vote view it is given
\* and get_slashabe_nodes is called on the view.
SlashingObserveVote(vote) ==
    /\ Cardinality(vote_view \cup {vote}) <= MaxSlashingVotes
    /\ vote_view' = vote_view \cup {vote}
    /\ UNCHANGED slashable_nodes
    /\ UNCHANGED rlmd_vars
    /\ UNCHANGED ga_vars
    /\ UNCHANGED clock_vars
    /\ UNCHANGED beacon_vars

GetSlashableNodes ==
    /\ slashable_nodes' = get_slashabe_nodes(vote_view)
    /\ UNCHANGED vote_view
    /\ UNCHANGED rlmd_vars
    /\ UNCHANGED ga_vars
    /\ UNCHANGED clock_vars
    /\ UNCHANGED beacon_vars

NextSlashing ==
    \/ \E vote \in SlashingVotes : SlashingObserveVote(vote)
    \/ GetSlashableNodes

SpecSlashing == Init /\ [][NextSlashing]_vars

\* The clock as a machine: it starts at time 0 under a configuration with
\* some delta >= 1 and ticks.
InitClock ==
    /\ InitNodes
    /\ \E delta \in 1..MaxDelta : clock = ClockState(0, [delta |-> delta, eta |-> Eta])

ClockTick ==
    /\ clock.time < MaxClockTime
    /\ clock' = ClockState(clock.time + 1, clock.configuration)
    /\ UNCHANGED rlmd_vars
    /\ UNCHANGED ga_vars
    /\ UNCHANGED slashing_vars
    /\ UNCHANGED beacon_vars

NextClock == ClockTick

SpecClock == InitClock /\ [][NextClock]_vars

\* The beacon state as a machine: its slot advances, attestations are
\* processed, attestation data are generated on the state, and the public
\* function update_justified_and_finalized_checkpoints is called on it with
\* any source and target (process_attestation is its only caller in src).
BeaconProcessSlot ==
    /\ beacon_state.slot < MaxBeaconSlot
    /\ beacon_state' = [beacon_state EXCEPT !.slot = @ + 1]
    /\ beacon_exception' = "none"
    /\ UNCHANGED attestation_data
    /\ UNCHANGED rlmd_vars
    /\ UNCHANGED ga_vars
    /\ UNCHANGED slashing_vars
    /\ UNCHANGED clock_vars

ProcessAttestation(attestation) ==
    LET outcome == process_attestation(beacon_state, attestation)
    IN  /\ beacon_state' = outcome.state
        /\ beacon_exception' = outcome.exception
        /\ UNCHANGED attestation_data
        /\ UNCHANGED rlmd_vars
        /\ UNCHANGED ga_vars
        /\ UNCHANGED slashing_vars
        /\ UNCHANGED clock_vars

\* A direct call: the state object is changed in place by the two
\* assignments before the condition raises, so the caller sees them.
UpdateJustifiedAndFinalizedCheckpoints(source, target) ==
    LET outcome == update_justified_and_finalized_checkpoints(beacon_state, source, target)
    IN  /\ Len(beacon_state.justified_checkpoints) < MaxJustifiedCheckpoints
        /\ beacon_state' = outcome.state
        /\ beacon_exception' = outcome.exception
        /\ UNCHANGED attestation_data
        /\ UNCHANGED rlmd_vars
        /\ UNCHANGED ga_vars
        /\ UNCHANGED slashing_vars
        /\ UNCHANGED clock_vars

GenerateAttestationData(confirmed_slot) ==
    LET data == generate_attestation_data(
                    beacon_state, beacon_state.justified_checkpoint, confirmed_slot)
    IN  /\ attestation_data' = IF data.raised THEN "TypeError" ELSE data.value
        /\ beacon_exception' = IF data.raised THEN "TypeError" ELSE "none"
        /\ UNCHANGED beacon_state
        /\ UNCHANGED rlmd_vars
        /\ UNCHANGED ga_vars
        /\ UNCHANGED slashing_vars
        /\ UNCHANGED clock_vars

NextBeacon ==
    \/ BeaconProcessSlot
    \/ \E attestation \in Attestations : ProcessAttestation(attestation)
    \/ \E confirmed_slot \in 0..MaxBeaconSlot : GenerateAttestationData(confirmed_slot)
    \/ \E source \in BeaconCheckpoints, target \in BeaconCheckpoints :
           UpdateJustifiedAndFinalizedCheckpoints(source, target)

SpecBeacon == Init /\ [][NextBeacon]_vars

(***************************************************************************)
(* Properties                                                              *)
(***************************************************************************)
TypeOK ==
    /\ DOMAIN view_blocks \subseteq Hashes
    /\ view_votes \subseteq AllVotes \cup FFGVotes \cup SafetyVotes \cup {voteJ1, voteBad}
    /\ buffer_votes \subseteq AllVotes \cup FFGVotes \cup SafetyVotes
    /\ current_slot \in 0..MaxSlot
    /\ current_phase \in {"PROPOSE", "VOTE", "CONFIRM", "MERGE"}
    /\ rlmd_exception \in {"none", "AttributeError"}

AllCheckpoints == {cpG, cpA1, cpA2, cpB1, cpA1bad}

C3_FinalizedImpliesJustified ==
    /\ \A checkpoint \in AllCheckpoints :
          is_finalized_checkpoint(checkpoint, CommonNodeState) = Return(TRUE)
              => is_justified_checkpoint(checkpoint, CommonNodeState) = Return(TRUE)
    /\ LET finalized == get_finalized_checkpoints(CommonNodeState)
           justified == get_justified_checkpoints(CommonNodeState)
       IN  ~finalized.raised => /\ ~justified.raised
                                /\ finalized.value \subseteq justified.value

\* a checkpoint other than genesis is finalized and in the finalized set
C3_Witness ==
    /\ is_finalized_checkpoint(cpA1, CommonNodeState) = Return(TRUE)
    /\ ~get_finalized_checkpoints(CommonNodeState).raised
    /\ cpA1 \in get_finalized_checkpoints(CommonNodeState).value

\* C4: in every reachable state get_head returns a block and the block of
\* every finalized checkpoint is a (reflexive) ancestor of it.
C4_FinalizedIsAncestorOfHead ==
    LET head == get_head(NodeState)
        finalized == get_finalized_checkpoints(CommonNodeState)
    IN  /\ ~head.raised
        /\ ~finalized.raised
        /\ \A checkpoint \in finalized.value : \A block \in head.value :
              /\ has_block_hash(checkpoint.block_hash, CommonNodeState)
              /\ is_ancestor_descendant_relationship(
                     get_block_from_hash(checkpoint.block_hash, CommonNodeState), block, CommonNodeState)

\* C5: in every reachable state is_justified_checkpoint returns true for
\* the genesis checkpoint and get_justified_checkpoints returns a set that
\* contains it.
C5_GenesisIsJustified ==
    /\ is_justified_checkpoint(genesis_checkpoint(CommonNodeState), CommonNodeState) = Return(TRUE)
    /\ ~get_justified_checkpoints(CommonNodeState).raised
    /\ genesis_checkpoint(CommonNodeState) \in get_justified_checkpoints(CommonNodeState).value

\* C6: in every reachable state is_finalized_checkpoint returns true for
\* the genesis checkpoint and get_finalized_checkpoints returns a set that
\* contains it.
C6_GenesisIsFinalized ==
    /\ is_finalized_checkpoint(genesis_checkpoint(CommonNodeState), CommonNodeState) = Return(TRUE)
    /\ ~get_finalized_checkpoints(CommonNodeState).raised
    /\ genesis_checkpoint(CommonNodeState) \in get_finalized_checkpoints(CommonNodeState).value

\* C7: in every reachable state valid_vote returns true for every vote of
\* the vote view.
C7_ViewVotesAreValid ==
    \A vote \in view_votes : valid_vote(vote, NodeState) = Return(TRUE)

\* C8: in every reachable state get_head returns a block that is in view,
\* is on a complete chain back to genesis and descends from the block of a
\* greatest justified checkpoint, the seed of the descent.
C8_HeadIsOnCompleteChain ==
    LET head == get_head(NodeState)
        greatest == get_greatest_justified_checkpoint(CommonNodeState)
    IN  /\ ~head.raised
        /\ \A block \in head.value :
              /\ block \in get_all_blocks(CommonNodeState)
              /\ is_complete_chain(block, CommonNodeState)
              /\ \E gjc \in greatest.value :
                    is_ancestor_descendant_relationship(
                        get_block_from_hash(gjc.block_hash, CommonNodeState), block, CommonNodeState)

\* C9: a call of execute_view_merge on the ga_based node returns, the
\* blocks become the old blocks merged with the old buffer_blocks, and the
\* votes become the old votes, the old buffer_votes and the votes included
\* in the blocks of the new block view.
C9_ViewMergeTakesTheUnion ==
    [][GaExecuteViewMerge =>
          LET blocks == pmap_merge(ga_node_state.blocks, ga_node_state.buffer_blocks)
          IN  /\ ga_exception' = "none"
              /\ ga_node_state'.blocks = blocks
              /\ ga_node_state'.votes =
                     ga_node_state.votes \cup ga_node_state.buffer_votes
                         \cup UNION {b.votes : b \in pmap_values(blocks)}]_vars

\* C10: after a call of execute_view_merge on the ga_based node both
\* buffers are empty.
C10_ViewMergeClearsTheBuffers ==
    [][GaExecuteViewMerge =>
          /\ ga_node_state'.buffer_votes = {}
          /\ ga_node_state'.buffer_blocks = pmap_get_empty]_vars

\* C11: get_head and is_confirmed return, and their results are those of the
\* state with the same view and empty buffers: states that differ only in
\* buffer_votes and buffer_blocks give equal results.
C11_BufferIsolation ==
    LET frozen == [NodeState EXCEPT !.buffer_votes = {}, !.buffer_blocks = pmap_get_empty]
    IN  /\ ~get_head(NodeState).raised
        /\ get_head(NodeState) = get_head(frozen)
        /\ \A block \in get_all_blocks(CommonNodeState) :
              /\ ~is_confirmed(block, NodeState).raised
              /\ is_confirmed(block, NodeState) = is_confirmed(block, frozen)

\* C12: execute_view_merge returns a state; applied to that state it returns
\* it again, and so it does after a vote or a block of the merged view is
\* delivered (buffered) once more: block view, vote view and buffers are
\* those of the first application.
C12_Idempotence ==
    LET once == execute_view_merge(NodeState)
    IN  /\ ~once.raised
        /\ execute_view_merge(once.value) = once
        /\ \A vote \in once.value.common.view_votes :
              execute_view_merge([once.value EXCEPT !.buffer_votes = @ \cup {vote}]) = once
        /\ \A hash \in DOMAIN once.value.common.view_blocks :
              execute_view_merge(
                  [once.value EXCEPT
                      !.buffer_blocks =
                          pmap_set(@, hash, once.value.common.view_blocks[hash])]) = once

\* C13: whenever get_head returns, the block it returns is the same for
\* every iteration order of the sets it goes through, and so is the
\* checkpoint get_greatest_justified_checkpoint returns; the LMD loop keeps
\* the same votes of the view in every iteration order: each has one
\* possible result.
C13_ResultsAreDeterministic ==
    LET head == get_head(NodeState)
        greatest == get_greatest_justified_checkpoint(CommonNodeState)
    IN  /\ ~head.raised => Cardinality(head.value) = 1
        /\ ~greatest.raised => Cardinality(greatest.value) = 1
        /\ Cardinality(filter_out_non_LMD_GHOST_votes(view_votes)) = 1

\* Section 4.7 of the specification: the two offences of a pair of votes
Equivocation(v1, v2) ==
    /\ v1 # v2
    /\ v1.message.ffg_target.chkp_slot = v2.message.ffg_target.chkp_slot

Surround(v1, v2) ==
    /\ \/ v1.message.ffg_source.chkp_slot < v2.message.ffg_source.chkp_slot
       \/ /\ v1.message.ffg_source.chkp_slot = v2.message.ffg_source.chkp_slot
          /\ v1.message.ffg_source.block_slot < v2.message.ffg_source.block_slot
    /\ v2.message.ffg_target.chkp_slot < v1.message.ffg_target.chkp_slot

\* C14: two votes for which is_slashable_offence holds have the same sender
\* and are an equivocation or one surrounds the other, and every node that
\* get_slashabe_nodes returns is the sender of such a pair of votes of the
\* vote view.
C14_SlashingIsSound ==
    /\ \A v1 \in vote_view : \A v2 \in vote_view :
          is_slashable_offence(v1, v2) =>
              /\ v1.sender = v2.sender
              /\ Equivocation(v1, v2) \/ Surround(v1, v2) \/ Surround(v2, v1)
    /\ \A node \in get_slashabe_nodes(vote_view) :
          \E v1 \in vote_view : \E v2 \in vote_view :
              /\ v1.sender = node
              /\ v2.sender = node
              /\ Equivocation(v1, v2) \/ Surround(v1, v2) \/ Surround(v2, v1)

\* the detector was called on a view where v1 surrounds its own vote and
\* v2 equivocates, and returned both
C14_Witness ==
    /\ {voteK1, voteF1, voteJ2, voteE2} \subseteq vote_view
    /\ slashable_nodes = get_slashabe_nodes(vote_view)
    /\ slashable_nodes = {"v1", "v2"}

\* C15 as stated: the sender of every pair of votes of the vote view that
\* is an equivocation or a surround is among the nodes get_slashabe_nodes
\* returns.
C15_SlashingIsComplete ==
    \A v1 \in vote_view : \A v2 \in vote_view :
        (/\ v1.sender = v2.sender
         /\ Equivocation(v1, v2) \/ Surround(v1, v2) \/ Surround(v2, v1))
            => v1.sender \in get_slashabe_nodes(vote_view)

\* C15, amended: the sender of every pair of votes of the vote view whose
\* signatures both verify and that is an equivocation or a surround is among
\* the nodes get_slashabe_nodes returns.
C15_SlashingIsCompleteForSignedVotes ==
    \A v1 \in vote_view : \A v2 \in vote_view :
        (/\ verify_vote_signature(v1)
         /\ verify_vote_signature(v2)
         /\ v1.sender = v2.sender
         /\ Equivocation(v1, v2) \/ Surround(v1, v2) \/ Surround(v2, v1))
            => v1.sender \in get_slashabe_nodes(vote_view)

\* the detector was called on a view with an equivocation of v2, a surround
\* of v1 and a pair of v3 one vote of which is forged, and returned v1, v2
C15_Witness ==
    /\ {voteJ2, voteE2, voteK1, voteF1} \subseteq vote_view
    /\ Equivocation(voteJ2, voteE2)
    /\ Surround(voteK1, voteF1)
    /\ slashable_nodes = get_slashabe_nodes(vote_view)
    /\ "v2" \in slashable_nodes
    /\ "v1" \in slashable_nodes

\* C16 as stated: a sender of two votes of the vote view with the same slot
\* and different head hashes is among the nodes get_slashabe_nodes returns.
C16_TwoHeadsInASlotAreSlashable ==
    \A v1 \in vote_view : \A v2 \in vote_view :
        (/\ v1.sender = v2.sender
         /\ v1.message.slot = v2.message.slot
         /\ v1.message.head_hash # v2.message.head_hash)
            => v1.sender \in get_slashabe_nodes(vote_view)

\* C16, amended: a sender of two votes of the vote view with verifying
\* signatures, the same slot, different head hashes and FFG targets of the
\* same checkpoint slot is among the nodes get_slashabe_nodes returns.
C16_TwoHeadsForOneCheckpointSlotAreSlashable ==
    \A v1 \in vote_view : \A v2 \in vote_view :
        (/\ verify_vote_signature(v1)
         /\ verify_vote_signature(v2)
         /\ v1.sender = v2.sender
         /\ v1.message.slot = v2.message.slot
         /\ v1.message.head_hash # v2.message.head_hash
         /\ v1.message.ffg_target.chkp_slot = v2.message.ffg_target.chkp_slot)
            => v1.sender \in get_slashabe_nodes(vote_view)

\* the detector was called on a view with two votes of v2 for two heads in
\* slot 1, both with targets of checkpoint slot 1, and returned v2
C16_Witness ==
    /\ {voteJ2, voteE2} \subseteq vote_view
    /\ voteJ2.message.slot = voteE2.message.slot
    /\ voteJ2.message.head_hash # voteE2.message.head_hash
    /\ slashable_nodes = get_slashabe_nodes(vote_view)
    /\ "v2" \in slashable_nodes

C18_DescentByStrictMajority ==
    LET node_state == ga_node_state
        validatorBalances ==
            get_validator_set_for_slot(
                node_state.highest_candidate_block, ga_get_slot(node_state), node_state)
        total_vote_weight ==
            pset_sum_balances(
                DOMAIN validatorBalances \cap {vote.sender : vote \in node_state.votes},
                validatorBalances)
    IN  /\ ~ga_get_head(node_state, FALSE).raised
        /\ \A block \in ga_get_all_blocks(node_state) :
              LET head == ga_find_head_from(
                              <<block, node_state.votes, node_state,
                                validatorBalances, total_vote_weight>>)
              IN  /\ ~head.raised
                  /\ head.value # block =>
                        \E child \in ga_get_children(block, node_state) :
                            /\ 2 * ga_get_GHOST_weight(
                                       child, node_state.votes, node_state, validatorBalances)
                                  > total_vote_weight
                            /\ ga_is_ancestor_descendant_relationship(
                                   child, head.value, node_state)

NextPhase ==
    [phase \in {"PROPOSE", "VOTE", "CONFIRM", "MERGE"} |->
        CASE phase = "PROPOSE" -> "VOTE"
          [] phase = "VOTE" -> "CONFIRM"
          [] phase = "CONFIRM" -> "MERGE"
          [] phase = "MERGE" -> "PROPOSE"]

\* C21: at every time t under every delta, in both nodes, the slot is the s
\* with 4*delta*s <= t < 4*delta*(s+1); the phase is PROPOSE, VOTE, CONFIRM
\* or MERGE exactly when t mod 4*delta is in [0,delta), [delta,2*delta),
\* [2*delta,3*delta), [3*delta,4*delta); one tick later the phase is the same
\* or the next of the cycle, and the slot is one more on the step from MERGE
\* to PROPOSE and the same otherwise.
C21_SlotAndPhaseOfTime ==
    LET t == clock.time
        delta == clock.configuration.delta
        r == t % (4 * delta)
        PhaseOf(phase) ==
            /\ phase = "PROPOSE" <=> r \in 0..(delta - 1)
            /\ phase = "VOTE" <=> r \in delta..(2 * delta - 1)
            /\ phase = "CONFIRM" <=> r \in (2 * delta)..(3 * delta - 1)
            /\ phase = "MERGE" <=> r \in (3 * delta)..(4 * delta - 1)
        SlotOf(slot) == 4 * delta * slot <= t /\ t < 4 * delta * (slot + 1)
        after == ClockState(t + 1, clock.configuration)
        Step(phase, slot, phase_after, slot_after) ==
            /\ phase_after \in {phase, NextPhase[phase]}
            /\ slot_after = IF phase = "MERGE" /\ phase_after = "PROPOSE" THEN slot + 1 ELSE slot
    IN  /\ SlotOf(clock.ga_slot)
        /\ PhaseOf(clock.ga_phase)
        /\ Step(clock.ga_phase, clock.ga_slot, after.ga_phase, after.ga_slot)
        /\ ~clock.slot.raised /\ ~clock.phase.raised
        /\ ~after.slot.raised /\ ~after.phase.raised
        /\ SlotOf(clock.slot.value)
        /\ PhaseOf(clock.phase.value)
        /\ Step(clock.phase.value, clock.slot.value, after.phase.value, after.slot.value)

\* C22: the expiry filter of each node, applied to the votes of the node's
\* view, returns exactly the votes that are not expired, those with
\* vote.slot + eta >= current_slot.
C22_ExpiryFilterKeepsTheUnexpired ==
    /\ filter_out_expired_GHOST_votes(view_votes, NodeState)
           = Return({vote \in view_votes : vote.message.slot + Eta >= current_slot})
    /\ filter_out_expired_head_votes(ga_node_state.votes, ga_node_state)
           = {vote \in ga_node_state.votes :
                 vote.message.slot + ga_node_state.configuration.eta
                     >= ga_get_slot(ga_node_state)}

\* C23: the LMD filter applied to the vote view has one result whatever the
\* order in which the loop meets the votes, and the result holds exactly one
\* vote for each sender of the view, of the greatest slot among the sender's
\* votes.
C23_LMDResultIsDetermined ==
    LET results == filter_out_non_LMD_GHOST_votes(view_votes)
    IN  /\ Cardinality(results) = 1
        /\ \A lmd \in results :
              /\ lmd \subseteq view_votes
              /\ \A sender \in {vote.sender : vote \in view_votes} :
                    /\ Cardinality({vote \in lmd : vote.sender = sender}) = 1
                    /\ \A vote \in lmd : \A other \in view_votes :
                          vote.sender = sender /\ other.sender = sender
                              => other.message.slot <= vote.message.slot

\* C24: for every vote with a recorded receipt time t that
\* is_head_vote_received_timely keeps, t <= 4*delta*current_slot - delta and
\* the slot and phase of t come strictly before the MERGE phase of the slot
\* current_slot - 1.
C24_TimelyVotesCameBeforeMerge ==
    LET node_state == ga_node_state
        delta == node_state.configuration.delta
        current_slot_now == ga_get_slot(node_state)
    IN  \A vote \in DOMAIN node_state.vote_receival_times :
            LET t == node_state.vote_receival_times[vote]
                timely == is_head_vote_received_timely(vote, node_state)
            IN  /\ ~timely.raised
                /\ timely.value =>
                      /\ t <= 4 * delta * current_slot_now - delta
                      /\ \/ ga_get_slot_from_time(t, node_state) < current_slot_now - 1
                         \/ /\ ga_get_slot_from_time(t, node_state) = current_slot_now - 1
                            /\ ga_get_phase_from_time(t, node_state) # "MERGE"

\* C25: for every vote the node has received (buffered or in the view),
\* valid_FFG_vote and valid_vote return, and return false when the head
\* hash, the source hash or the target hash of the vote is not in the block
\* view.
C25_ValidationNeverAborts ==
    \A vote \in view_votes \cup buffer_votes :
        LET ffg == valid_FFG_vote(vote, CommonNodeState)
            valid == valid_vote(vote, NodeState)
            absent == \/ ~has_block_hash(vote.message.head_hash, CommonNodeState)
                      \/ ~has_block_hash(vote.message.ffg_source.block_hash, CommonNodeState)
                      \/ ~has_block_hash(vote.message.ffg_target.block_hash, CommonNodeState)
        IN  /\ ~ffg.raised
            /\ ~valid.raised
            /\ absent => ~ffg.value /\ ~valid.value

\* the conditions valid_vote puts on a vote (signature, FFG validity, head
\* in view on a complete chain, sender a validator, target block an ancestor
\* of the head block), on the view of the node
ValidVoteConditions(vote) ==
    /\ verify_vote_signature(vote)
    /\ valid_FFG_vote(vote, CommonNodeState) = Return(TRUE)
    /\ has_block_hash(vote.message.head_hash, CommonNodeState)
    /\ is_complete_chain(
           get_block_from_hash(vote.message.head_hash, CommonNodeState), CommonNodeState)
    /\ is_validator(vote.sender,
           get_validator_set_for_slot(
               get_block_from_hash(vote.message.head_hash, CommonNodeState),
               vote.message.slot, CommonNodeState))
    /\ is_ancestor_descendant_relationship(
           get_block_from_hash(vote.message.ffg_target.block_hash, CommonNodeState),
           get_block_from_hash(vote.message.head_hash, CommonNodeState),
           CommonNodeState)

\* C26: a vote of the view for which
\* is_FFG_vote_in_support_of_checkpoint_justification returns true for a
\* checkpoint C satisfies the conditions of valid_vote, has the checkpoint
\* slot of C as its target's, C's block is an ancestor of its target block,
\* its source block is an ancestor of C's block, and its source is justified.
C26_OnlyValidVotesSupportJustification ==
    \A vote \in view_votes : \A checkpoint \in get_set_FFG_targets(view_votes) :
        LET support == is_FFG_vote_in_support_of_checkpoint_justification(
                           vote, checkpoint, CommonNodeState)
            source_justified == is_justified_checkpoint(vote.message.ffg_source, CommonNodeState)
        IN  ~support.raised /\ support.value =>
              /\ ValidVoteConditions(vote)
              /\ vote.message.ffg_target.chkp_slot = checkpoint.chkp_slot
              /\ has_block_hash(checkpoint.block_hash, CommonNodeState)
              /\ is_ancestor_descendant_relationship(
                     get_block_from_hash(checkpoint.block_hash, CommonNodeState),
                     get_block_from_hash(vote.message.ffg_target.block_hash, CommonNodeState),
                     CommonNodeState)
              /\ is_ancestor_descendant_relationship(
                     get_block_from_hash(vote.message.ffg_source.block_hash, CommonNodeState),
                     get_block_from_hash(checkpoint.block_hash, CommonNodeState),
                     CommonNodeState)
              /\ ~source_justified.raised /\ source_justified.value

\* the validators with a vote in the view for which the support test of
\* `checkpoint` returns true
SupportersInView(checkpoint) ==
    {vote.sender : vote \in
        {v \in view_votes :
            LET support == is_FFG_vote_in_support_of_checkpoint_justification(
                               v, checkpoint, CommonNodeState)
            IN  ~support.raised /\ support.value}}

\* C27: whenever is_justified_checkpoint returns for a non-genesis target C
\* of the view whose block is in the view on a complete chain, it returns
\* true iff 3 * (number of distinct validators with a supporting vote in
\* view) >= 2 * (number of validators), all validators having weight 1; and
\* when the view holds exactly the votes of v1, v2 and v3 from genesis to
\* (A1,1,1) the greatest justified checkpoint is (A1,1,1).
C27_JustifiedIffTwoThirdsOfWeight ==
    /\ \A checkpoint \in get_set_FFG_targets(view_votes) :
          LET justified == is_justified_checkpoint(checkpoint, CommonNodeState)
              validatorBalances ==
                  get_validator_set_for_slot(
                      get_block_from_hash(checkpoint.block_hash, CommonNodeState),
                      checkpoint.block_slot, CommonNodeState)
          IN  /\ checkpoint # genesis_checkpoint(CommonNodeState)
              /\ has_block_hash(checkpoint.block_hash, CommonNodeState)
              /\ is_complete_chain(get_block_from_hash(checkpoint.block_hash, CommonNodeState), CommonNodeState)
              /\ ~justified.raised
              => (justified.value <=>
                    3 * Cardinality(SupportersInView(checkpoint))
                        >= 2 * Cardinality(DOMAIN validatorBalances))
    /\ view_votes = {voteJ1, voteJ2, voteJ3} /\ has_block_hash("A1", CommonNodeState)
          => get_greatest_justified_checkpoint(CommonNodeState) = Return({cpA1})

\* (A1,1,1) has supporting votes of exactly two of the three validators in
\* the view and is justified
C27_Witness ==
    /\ has_block_hash("A1", CommonNodeState)
    /\ cpA1 \in get_set_FFG_targets(view_votes)
    /\ Cardinality(SupportersInView(cpA1)) = 2
    /\ is_justified_checkpoint(cpA1, CommonNodeState) = Return(TRUE)

\* the validators with a vote in the view whose source is `checkpoint` and
\* whose target is `target`
LinkersInView(checkpoint, target) ==
    {vote.sender : vote \in
        {v \in view_votes : v.message.ffg_source = checkpoint /\ v.message.ffg_target = target}}

\* C28: whenever is_finalized_checkpoint returns true for a non-genesis
\* target C of the view, C is justified and there is one justified checkpoint
\* C' of checkpoint slot C.chkp_slot + 1 such that the validators voting from
\* C to C' hold at least two thirds of the weight (all weights being 1).
C28_FinalizedByOneSupermajorityLink ==
    \A checkpoint \in get_set_FFG_targets(view_votes) :
        checkpoint # genesis_checkpoint(CommonNodeState)
        /\ is_finalized_checkpoint(checkpoint, CommonNodeState) = Return(TRUE)
        => /\ is_justified_checkpoint(checkpoint, CommonNodeState) = Return(TRUE)
           /\ \E target \in get_set_FFG_targets(view_votes) :
                 /\ target.chkp_slot = checkpoint.chkp_slot + 1
                 /\ is_justified_checkpoint(target, CommonNodeState) = Return(TRUE)
                 /\ 3 * Cardinality(LinkersInView(checkpoint, target)) >= 2 * 3

\* C28 as the code has it: whenever is_finalized_checkpoint returns true for
\* a non-genesis target C of the view, C is justified and the validators with
\* a vote in the view from C to any target of checkpoint slot C.chkp_slot + 1
\* hold at least two thirds of the weight.
C28_FinalizedByLinksToTheNextSlot ==
    \A checkpoint \in get_set_FFG_targets(view_votes) :
        checkpoint # genesis_checkpoint(CommonNodeState)
        /\ is_finalized_checkpoint(checkpoint, CommonNodeState) = Return(TRUE)
        => /\ is_justified_checkpoint(checkpoint, CommonNodeState) = Return(TRUE)
           /\ 3 * Cardinality(UNION {LinkersInView(checkpoint, target) :
                                        target \in {t \in get_set_FFG_targets(view_votes) :
                                                       t.chkp_slot = checkpoint.chkp_slot + 1}})
                  >= 2 * 3

\* (A1,1,1) is finalized by two votes that link it to two different
\* checkpoints of slot 2
C28_Witness ==
    /\ {voteF1, voteL2} \subseteq view_votes
    /\ is_finalized_checkpoint(cpA1, CommonNodeState) = Return(TRUE)

\* the checkpoints named by the votes of the view
CheckpointsInView ==
    {vote.message.ffg_target : vote \in view_votes}
        \cup {vote.message.ffg_source : vote \in view_votes}

\* the number of nested calls of is_justified_checkpoint under an evaluation
\* of is_justified_checkpoint(checkpoint)
RECURSIVE JustificationDepth(_)
JustificationDepth(checkpoint) ==
    LET calls == justification_calls(checkpoint, CommonNodeState)
    IN  IF calls = {} THEN 0
        ELSE 1 + (CHOOSE d \in {JustificationDepth(c) : c \in calls} :
                     \A e \in {JustificationDepth(c) : c \in calls} : e <= d)

\* C29: every call of is_justified_checkpoint made while evaluating
\* is_justified_checkpoint(C), for a checkpoint C named in the view, is on a
\* checkpoint of a strictly smaller checkpoint slot that is not negative, and
\* the calls nest at most C.chkp_slot deep; the support test of a vote is the
\* justification of its source exactly when the conjuncts before that call
\* hold, and is false or aborted otherwise.
C29_JustificationRecursionDescends ==
    /\ \A checkpoint \in CheckpointsInView :
          \A source \in justification_calls(checkpoint, CommonNodeState) :
              0 <= source.chkp_slot /\ source.chkp_slot < checkpoint.chkp_slot
    /\ \A checkpoint \in CheckpointsInView :
          JustificationDepth(checkpoint) <= checkpoint.chkp_slot
    /\ \A checkpoint \in CheckpointsInView : \A vote \in view_votes :
          LET support == is_FFG_vote_in_support_of_checkpoint_justification(
                             vote, checkpoint, CommonNodeState)
          IN  IF reaches_justification_of_source(vote, checkpoint, CommonNodeState)
              THEN support = is_justified_checkpoint(vote.message.ffg_source, CommonNodeState)
              ELSE support.raised \/ ~support.value

\* The evaluation for (A2,2,2) calls the one for (A1,1,1), which calls the
\* one for genesis, in a view holding a vote from (A1,1,1) to itself.
C29_Witness ==
    /\ voteLoop3 \in view_votes
    /\ has_block_hash("A1", CommonNodeState)
    /\ cpA2 \in CheckpointsInView
    /\ JustificationDepth(cpA2) = 2

\* the block the specification describes for get_highest_candidate_block:
\* the blocks of greatest slot among the descendants of the greatest
\* justified block with a quorum of the previous slot's votes, the greatest
\* justified block when there is none
CandidateBlocks(node_state) ==
    LET justified == get_greatest_justified_block(node_state).value
        quorum == {b \in ga_get_all_blocks(node_state) :
                      /\ ga_is_ancestor_descendant_relationship(justified, b, node_state)
                      /\ recent_quorum_comparison(node_state.votes, b, node_state)}
    IN  IF quorum = {} THEN {justified}
        ELSE {b \in quorum : \A c \in quorum : c.slot <= b.slot}

\* C31: get_highest_candidate_block returns the block of greatest slot among
\* the descendants of the greatest justified block that have a quorum of the
\* previous slot's votes, and the greatest justified block when none has.
C31_CandidateIsTheHighestQuorumDescendant ==
    LET candidate == get_highest_candidate_block(ga_node_state)
    IN  /\ ~candidate.raised
        /\ candidate.value \subseteq CandidateBlocks(ga_node_state)

\* C32: a call of update_justified_and_candidate that returns stores a
\* greatest justified checkpoint of the view and then the highest candidate
\* block of the state holding that checkpoint, a descendant of its block.
C32_CachesAreRefreshedInOrder ==
    [][(ga_node_state'.time = ga_node_state.time /\ ga_exception' = "none") =>
          /\ ga_node_state'.greatest_justified_checkpoint
                 \in ga_get_greatest_justified_checkpoint(ga_node_state).value
          /\ ga_node_state'.highest_candidate_block
                 \in get_highest_candidate_block(ga_node_state').value
          /\ ga_is_ancestor_descendant_relationship(
                 get_greatest_justified_block(ga_node_state').value,
                 ga_node_state'.highest_candidate_block,
                 ga_node_state')]_vars

C32_Witness ==
    /\ ga_node_state.greatest_justified_checkpoint = cpA1
    /\ ga_node_state.highest_candidate_block = blockA1
    /\ ga_exception = "none"

\* C35: generate_attestation_data returns data whose source is the latest
\* justified checkpoint, whose target has the head slot as checkpoint_slot
\* and a chain slot that is at least the source's chain slot and at least
\* the head slot minus k.
C35_TargetIsChosenFromTheSafeSlot ==
    \A confirmed_slot \in 0..MaxBeaconSlot :
        LET data == generate_attestation_data(
                        beacon_state, beacon_state.justified_checkpoint, confirmed_slot)
        IN  /\ ~data.raised
            /\ data.value.source = beacon_state.justified_checkpoint
            /\ data.value.target.checkpoint_slot = beacon_state.slot
            /\ data.value.target.chain_slot >= beacon_state.justified_checkpoint.chain_slot
            /\ data.value.target.chain_slot >= beacon_state.slot - K_DEEP_CONFIRMATION_PARAMETER

C36_DescentStopsWithoutAMajorityChild ==
    LET validatorBalances ==
            get_validator_set_for_slot(
                ga_node_state.highest_candidate_block, ga_get_slot(ga_node_state), ga_node_state)
        total_vote_weight ==
            pset_sum_balances(
                DOMAIN validatorBalances \cap {vote.sender : vote \in ga_node_state.votes},
                validatorBalances)
        head == ga_find_head_from(
                    <<ga_node_state.highest_candidate_block, ga_node_state.votes,
                      ga_node_state, validatorBalances, total_vote_weight>>)
    IN  /\ ~head.raised
        /\ (\A child \in ga_get_children(ga_node_state.highest_candidate_block, ga_node_state) :
               ~(ga_get_GHOST_weight(child, ga_node_state.votes, ga_node_state, validatorBalances)
                     > total_vote_weight \div 2))
              => head.value = ga_node_state.highest_candidate_block

\* C38: every justified checkpoint of the view has its block in the view on
\* a complete chain, and the slot of that block is its block_slot.
C38_JustifiedCheckpointsAreWellFormed ==
    LET justified == get_justified_checkpoints(CommonNodeState)
    IN  ~justified.raised =>
           \A checkpoint \in justified.value :
              /\ has_block_hash(checkpoint.block_hash, CommonNodeState)
              /\ is_complete_chain(get_block_from_hash(checkpoint.block_hash, CommonNodeState), CommonNodeState)
              /\ get_block_from_hash(checkpoint.block_hash, CommonNodeState).slot = checkpoint.block_slot

\* two checkpoints whose blocks are on different branches
ConflictingCheckpoints(c1, c2) ==
    /\ ~is_ancestor_descendant_relationship(
            get_block_from_hash(c1.block_hash, CommonNodeState),
            get_block_from_hash(c2.block_hash, CommonNodeState), CommonNodeState)
    /\ ~is_ancestor_descendant_relationship(
            get_block_from_hash(c2.block_hash, CommonNodeState),
            get_block_from_hash(c1.block_hash, CommonNodeState), CommonNodeState)

\* C37: when two finalized checkpoints of the view are on different
\* branches, the nodes that get_slashabe_nodes returns for the votes of the
\* view hold at least one third of the weight of the validator set.
C37_AccountableSafety ==
    LET finalized == get_finalized_checkpoints(CommonNodeState)
        validatorBalances == get_validator_set_for_slot(genesis, 0, CommonNodeState)
    IN  ~finalized.raised =>
           \A c1 \in finalized.value : \A c2 \in finalized.value :
              ConflictingCheckpoints(c1, c2) =>
                 validator_set_weight(get_slashabe_nodes(view_votes), validatorBalances) * 3
                    >= validator_set_weight(DOMAIN validatorBalances, validatorBalances)

\* (A1,1,1) and (B1,3,1) are both finalized, and a node is slashable
C37_Witness ==
    LET finalized == get_finalized_checkpoints(CommonNodeState)
    IN  /\ ~finalized.raised
        /\ {cpA1, cpB1} \subseteq finalized.value
        /\ ConflictingCheckpoints(cpA1, cpB1)
        /\ get_slashabe_nodes(view_votes) # {}

====
